---- MODULE Spec2Model ----
(***************************************************************************)
(* A model of backend/ml/ocr_engine.py (class EnhancedOCREngine).          *)
(*                                                                         *)
(* Text is a sequence of one-character strings; "\n" separates lines.      *)
(* Regular expressions are modelled by matchers that follow the            *)
(* backtracking order of Python's re module on the patterns of the source. *)
(* A float is modelled as an exact decimal [num, scale] = num / 10^scale,  *)
(* kept normalised (no trailing zero in the fraction), which agrees with   *)
(* float equality and order for numbers of at most MaxDigits digits.       *)
(***************************************************************************)
EXTENDS Integers, Sequences, FiniteSets, TLC

(***************************************************************************)
(* Characters                                                              *)
(***************************************************************************)
Rupee == "₹"

DigitChars == <<"0","1","2","3","4","5","6","7","8","9">>

UpperChars == <<"A","B","C","D","E","F","G","H","I","J","K","L","M",
                "N","O","P","Q","R","S","T","U","V","W","X","Y","Z">>

LowerChars == <<"a","b","c","d","e","f","g","h","i","j","k","l","m",
                "n","o","p","q","r","s","t","u","v","w","x","y","z">>

Digits == {DigitChars[i] : i \in 1..10}

Uppers == {UpperChars[i] : i \in 1..26}

Lowers == {LowerChars[i] : i \in 1..26}

\* \s of the re module (the ASCII part)
Spaces == {" ", "\t", "\n", "\r", "\f"}

\* \w of the re module (the ASCII part); the rupee sign is not a word character
WordChars == Digits \cup Uppers \cup Lowers \cup {"_"}

IsDigit(c) == c \in Digits

IsSpace(c) == c \in Spaces

IsWord(c) == c \in WordChars

\* str.lower() on one character
LowerChar(c) ==
    IF c \in Uppers
    THEN LowerChars[CHOOSE i \in 1..26 : UpperChars[i] = c]
    ELSE c

\* str.lower()
Lower(s) == [i \in 1..Len(s) |-> LowerChar(s[i])]

DigitVal(c) == (CHOOSE i \in 1..10 : DigitChars[i] = c) - 1

\* the character at position p of s, or "" past either end
At(s, p) == IF p >= 1 /\ p <= Len(s) THEN s[p] ELSE ""

\* the least of a non-empty set of positions
Least(S) == CHOOSE i \in S : \A j \in S : i <= j

\* s[p..q-1]
Slice(s, p, q) == SubSeq(s, p, q - 1)

\* `kw in s`, kw at position p
StartsAt(s, p, kw) ==
    /\ p + Len(kw) - 1 <= Len(s)
    /\ \A j \in 1..Len(kw) : s[p + j - 1] = kw[j]

\* `kw in s`
Contains(s, kw) == \E p \in 1..(Len(s) - Len(kw) + 1) : StartsAt(s, p, kw)

\* kw at position p of s, ignoring case (re.IGNORECASE on a literal)
StartsAtI(s, p, kw) ==
    /\ p + Len(kw) - 1 <= Len(s)
    /\ \A j \in 1..Len(kw) : LowerChar(s[p + j - 1]) = LowerChar(kw[j])

\* the number of consecutive digits of s from position p
RECURSIVE DigitRun(_, _)
DigitRun(s, p) == IF IsDigit(At(s, p)) THEN 1 + DigitRun(s, p + 1) ELSE 0

\* the first position >= p of s that holds no whitespace (\s* is greedy)
RECURSIVE SkipSpaces(_, _)
SkipSpaces(s, p) == IF IsSpace(At(s, p)) THEN SkipSpaces(s, p + 1) ELSE p

\* str.strip()
RECURSIVE StripLeft(_)
StripLeft(s) ==
    IF s # <<>> /\ IsSpace(s[1]) THEN StripLeft(Tail(s)) ELSE s

RECURSIVE StripRight(_)
StripRight(s) ==
    IF s # <<>> /\ IsSpace(s[Len(s)])
    THEN StripRight(SubSeq(s, 1, Len(s) - 1))
    ELSE s

Strip(s) == StripRight(StripLeft(s))

\* str.split(sep) for a one-character separator: always at least one part
RECURSIVE SplitOn(_, _)
SplitOn(s, sep) ==
    IF \E i \in 1..Len(s) : s[i] = sep
    THEN LET i == CHOOSE k \in 1..Len(s) :
                      s[k] = sep /\ \A j \in 1..(k - 1) : s[j] # sep
         IN  <<SubSeq(s, 1, i - 1)>> \o SplitOn(SubSeq(s, i + 1, Len(s)), sep)
    ELSE <<s>>

\* str.split() with no argument: the maximal runs of non-whitespace
RECURSIVE SplitWs(_)
SplitWs(s) ==
    LET t == StripLeft(s)
    IN  IF t = <<>> THEN <<>>
        ELSE LET n == CHOOSE k \in 1..Len(t) :
                          /\ \A j \in 1..k : ~IsSpace(t[j])
                          /\ (k = Len(t) \/ IsSpace(t[k + 1]))
             IN  <<SubSeq(t, 1, n)>> \o SplitWs(SubSeq(t, n + 1, Len(t)))

\* "".join(parts)
RECURSIVE Join(_)
Join(parts) == IF parts = <<>> THEN <<>> ELSE Head(parts) \o Join(Tail(parts))

\* sep.join(parts)
RECURSIVE JoinWith(_, _)
JoinWith(parts, sep) ==
    IF parts = <<>> THEN <<>>
    ELSE IF Len(parts) = 1 THEN parts[1]
    ELSE parts[1] \o sep \o JoinWith(Tail(parts), sep)

\* s.count(c)
Count(s, c) == Cardinality({i \in 1..Len(s) : s[i] = c})

(***************************************************************************)
(* Floats as exact decimals                                                *)
(***************************************************************************)
RECURSIVE Pow10(_)
Pow10(k) == IF k = 0 THEN 1 ELSE 10 * Pow10(k - 1)

RECURSIVE Normalise(_, _)
Normalise(n, k) ==
    IF k > 0 /\ n % 10 = 0 THEN Normalise(n \div 10, k - 1)
    ELSE [kind |-> "num", num |-> n, scale |-> k]

\* the float of an integer and of a number of hundredths
Whole(n) == Normalise(n, 0)

Hundredths(n) == Normalise(n, 2)

\* Python's None, as the value of an Optional[float]
None == [kind |-> "none", num |-> 0, scale |-> 0]

\* an uncaught exception leaving the function
Raised == [kind |-> "raise", num |-> 0, scale |-> 0]

IsNum(v) == v.kind = "num"

\* a < b on floats
LessThan(a, b) ==
    LET k == IF a.scale > b.scale THEN a.scale ELSE b.scale
    IN  a.num * Pow10(k - a.scale) < b.num * Pow10(k - b.scale)

\* float.is_integer()
IsInteger(v) == v.scale = 0

\* the truth value of an Optional[float]: None and 0.0 are false
Truthy(v) == IsNum(v) /\ v.num # 0

\* int(ds) for a sequence of digits
RECURSIVE DigitsValue(_)
DigitsValue(ds) ==
    IF ds = <<>> THEN 0
    ELSE 10 * DigitsValue(SubSeq(ds, 1, Len(ds) - 1)) + DigitVal(ds[Len(ds)])

\* the decimal digits of n >= 0
RECURSIVE DigitsOf(_)
DigitsOf(n) ==
    IF n < 10 THEN <<DigitChars[n + 1]>>
    ELSE DigitsOf(n \div 10) \o <<DigitChars[(n % 10) + 1]>>

\* float(s) for s made of digits and at most one dot: None stands for ValueError
Float(s) ==
    LET parts == SplitOn(s, ".")
        ip    == parts[1]
        fp    == IF Len(parts) > 1 THEN parts[2] ELSE <<>>
    IN  IF Len(parts) > 2 \/ (ip = <<>> /\ fp = <<>>) THEN None
        ELSE Normalise(DigitsValue(ip \o fp), Len(fp))

RECURSIVE Zeros(_)
Zeros(n) == IF n <= 0 THEN <<>> ELSE <<"0">> \o Zeros(n - 1)

\* str(v) of a float v >= 0 (repr: positional for 1e-4 <= v < 1e16 and for 0,
\* scientific otherwise), as formatted into the log line of extract_transactions
FloatStr(v) ==
    LET D     == DigitsOf(v.num)
        L     == Len(D)
        exp10 == L - v.scale - 1
        ae    == IF exp10 < 0 THEN -exp10 ELSE exp10
    IN  IF v.num = 0 THEN <<"0",".","0">>
        ELSE IF exp10 >= -4 /\ exp10 < 16
        THEN IF v.scale = 0 THEN D \o <<".","0">>
             ELSE IF L > v.scale
             THEN SubSeq(D, 1, L - v.scale) \o <<".">> \o SubSeq(D, L - v.scale + 1, L)
             ELSE <<"0",".">> \o Zeros(v.scale - L) \o D
        ELSE <<D[1]>> \o (IF L > 1 THEN <<".">> \o SubSeq(D, 2, L) ELSE <<>>)
             \o <<"e">> \o (IF exp10 < 0 THEN <<"-">> ELSE <<"+">>)
             \o (IF ae < 10 THEN <<"0">> ELSE <<>>) \o DigitsOf(ae)

(***************************************************************************)
(* _clean_amount                                                           *)
(***************************************************************************)
\* re.match(r'^\d+(?:,\d{3})*(?:\.\d{2})?$', x): $ also matches before a final "\n"
RECURSIVE CommaGroups(_, _)
CommaGroups(x, p) ==
    IF At(x, p) = "," /\ DigitRun(x, p + 1) >= 3 THEN CommaGroups(x, p + 4) ELSE p

AtEnd(x, p) == p = Len(x) + 1 \/ (p = Len(x) /\ x[p] = "\n")

MatchesPlainAmount(x) ==
    \* \d+ takes the whole run of digits and each optional part is taken when
    \* it is there: giving anything back leaves a character before the $
    LET n == DigitRun(x, 1)
        g == CommaGroups(x, n + 1)
    IN  /\ n >= 1
        /\ \/ AtEnd(x, g)
           \/ At(x, g) = "." /\ DigitRun(x, g + 1) >= 2 /\ AtEnd(x, g + 3)

RemoveCommas(s) == SelectSeq(s, LAMBDA c : c # ",")

\* lines 270-276: prefer the last whitespace-separated part when it is a number
LastPart(amount_str) ==
    LET parts == SplitWs(amount_str)
        last  == parts[Len(parts)]
    IN  IF MatchesPlainAmount(RemoveCommas(last)) THEN last ELSE amount_str

\* lines 279-286 keeping the first of several dots, not the last
KeepFirstDot(amount_str) ==
    LET kept    == SelectSeq(amount_str, LAMBDA c : IsDigit(c) \/ c = "," \/ c = ".")
        cleaned == RemoveCommas(kept)
        parts   == SplitOn(cleaned, ".")
    IN  IF Count(cleaned, ".") > 1
        THEN parts[1] \o <<".">> \o Join(SubSeq(parts, 2, Len(parts)))
        ELSE cleaned

\* lines 279-286
CleanDigits(amount_str) ==
    LET kept    == SelectSeq(amount_str, LAMBDA c : IsDigit(c) \/ c = "," \/ c = ".")
        cleaned == RemoveCommas(kept)
        parts   == SplitOn(cleaned, ".")
    IN  IF Count(cleaned, ".") > 1
        THEN Join(SubSeq(parts, 1, Len(parts) - 1)) \o <<".">> \o parts[Len(parts)]
        ELSE cleaned

\* _clean_amount: a float, None (ValueError caught), or IndexError raised by
\* parts[-1] when the string holds a space and nothing but whitespace
CleanAmount(amount_str) ==
    IF Contains(amount_str, <<" ">>) /\ SplitWs(amount_str) = <<>> THEN Raised
    ELSE IF Contains(amount_str, <<" ">>) THEN Float(CleanDigits(LastPart(amount_str)))
    ELSE Float(CleanDigits(amount_str))

(***************************************************************************)
(* The tables of __init__                                                  *)
(***************************************************************************)
total_keywords ==
    << <<"t","o","t","a","l">>, <<"g","r","a","n","d"," ","t","o","t","a","l">>, <<"n","e","t"," ","a","m","o","u","n","t">>, <<"a","m","o","u","n","t"," ","d","u","e">>,
       <<"a","m","o","u","n","t"," ","p","a","y","a","b","l","e">>, <<"b","i","l","l"," ","a","m","o","u","n","t">>, <<"f","i","n","a","l"," ","a","m","o","u","n","t">>, <<"t","o","t","a","l"," ","a","m","o","u","n","t">>,
       <<"t","o","t","a","l"," ","p","a","y","a","b","l","e">>, <<"y","o","u"," ","p","a","i","d">>, <<"p","a","i","d"," ","a","m","o","u","n","t">>, <<"p","a","y","m","e","n","t">>,
       <<"b","a","l","a","n","c","e">>, <<"n","e","t"," ","t","o","t","a","l">>, <<"a","m","o","u","n","t"," ","p","a","i","d">>, <<"t","o","t","a","l"," ","p","a","i","d">>,
       <<"i","n","v","o","i","c","e"," ","t","o","t","a","l">>, <<"o","r","d","e","r"," ","t","o","t","a","l">>, <<"s","u","b","t","o","t","a","l">>, <<"s","u","b"," ","t","o","t","a","l">>,
       <<"c","h","a","r","g","e","d">>, <<"d","e","b","i","t">>, <<"c","r","e","d","i","t">>, <<"t","r","a","n","s","f","e","r","r","e","d">>, <<"r","e","c","e","i","v","e","d">>,
       <<"d","e","p","o","s","i","t","e","d">>, <<"w","i","t","h","d","r","a","w","n">> >>

ignore_keywords ==
    << <<"c","g","s","t">>, <<"s","g","s","t">>, <<"i","g","s","t">>, <<"g","s","t">>, <<"t","a","x">>, <<"v","a","t">>,
       <<"s","e","r","v","i","c","e"," ","c","h","a","r","g","e">>, <<"d","e","l","i","v","e","r","y"," ","c","h","a","r","g","e">>, <<"d","i","s","c","o","u","n","t">>, <<"o","f","f","e","r">>,
       <<"s","a","v","e","d">>, <<"s","a","v","i","n","g","s">>, <<"t","i","p">>, <<"c","a","s","h","b","a","c","k">>, <<"w","a","l","l","e","t">>, <<"p","o","i","n","t","s">>,
       <<"r","e","w","a","r","d","s">>, <<"p","a","c","k","i","n","g"," ","c","h","a","r","g","e">>, <<"c","o","n","v","e","n","i","e","n","c","e"," ","f","e","e">>,
       <<"h","a","n","d","l","i","n","g"," ","c","h","a","r","g","e">>, <<"i","t","e","m">>, <<"q","t","y">>, <<"q","u","a","n","t","i","t","y">>, <<"p","r","i","c","e">>,
       <<"r","a","t","e">>, <<"m","r","p">>, <<"p","h","o","n","e">>, <<"m","o","b","i","l","e">>, <<"e","m","a","i","l">>, <<"a","d","d","r","e","s","s">>,
       <<"p","i","n","c","o","d","e">>, <<"g","s","t","i","n">> >>

\* any(keyword in s for keyword in table)
ContainsAny(s, table) == \E k \in 1..Len(table) : Contains(s, table[k])

(***************************************************************************)
(* amount_patterns, matched as re.findall matches them.  A match is        *)
(* [gs, ge, end]: group 1 is s[gs..ge-1] and the match ends before end;    *)
(* end = 0 stands for "no match at this position".                         *)
(***************************************************************************)
NoMatch == [gs |-> 0, ge |-> 0, end |-> 0]

\* \b between positions p-1 and p
Boundary(s, p) == IsWord(At(s, p - 1)) # IsWord(At(s, p))

\* \d{1,3}(?:,\d{3})*(?:\.\d{2})? at p with nothing required after it: every
\* part is greedy; the position after it, or 0
AmountCoreEnd(s, p) ==
    LET r == DigitRun(s, p)
        n == IF r > 3 THEN 3 ELSE r
        g == CommaGroups(s, p + n)
    IN  IF r = 0 THEN 0
        ELSE IF At(s, g) = "." /\ DigitRun(s, g + 1) >= 2 THEN g + 3
        ELSE g

\* the same with something required after it: the ends the matcher tries, in the
\* order it tries them (fewer groups, then fewer digits)
AmountCoreEnds(s, p) ==
    LET r == DigitRun(s, p)
        n == IF r > 3 THEN 3 ELSE r
        g == CommaGroups(s, p + n)
        K == (g - (p + n)) \div 4
        byGroups == [i \in 1..(K + 1) |->
                        LET e == p + n + 4 * (K + 1 - i)
                        IN  IF At(s, e) = "." /\ DigitRun(s, e + 1) >= 2
                            THEN <<e + 3, e>> ELSE <<e>>]
    IN  IF r = 0 THEN <<>>
        ELSE Join(byGroups) \o [i \in 1..(n - 1) |-> p + n - i]

\* (?:Rs\.?|₹|INR|rs\.?) at p, ignoring case: the position after it, or 0
CurrencyEnd(s, p) ==
    IF StartsAtI(s, p, <<"R","s">>) THEN (IF At(s, p + 2) = "." THEN p + 3 ELSE p + 2)
    ELSE IF At(s, p) = Rupee THEN p + 1
    ELSE IF StartsAtI(s, p, <<"I","N","R">>) THEN p + 3
    ELSE 0

\* the match whose group is s[gs..ge) when the core ends at e, none when e = 0
GroupTo(gs, e, end) ==
    IF e = 0 \/ end = 0 THEN NoMatch ELSE [gs |-> gs, ge |-> e, end |-> end]

\* (\d{1,3}(?:,\d{3})*(?:\.\d{2})?) at q, as the last part of a pattern
SpacedAmountAt(s, q) == GroupTo(q, AmountCoreEnd(s, q), AmountCoreEnd(s, q))

\* r'(?:Rs\.?|₹|INR|rs\.?)\s*(\d{1,3}(?:,\d{3})*(?:\.\d{2})?)'
PrefixedAt(s, p) ==
    IF CurrencyEnd(s, p) = 0 THEN NoMatch
    ELSE SpacedAmountAt(s, SkipSpaces(s, CurrencyEnd(s, p)))

\* the first of the ends[i..] after which \s*(?:Rs\.?|₹|INR) matches
RECURSIVE SuffixedFrom(_, _, _, _)
SuffixedFrom(s, p, ends, i) ==
    IF i > Len(ends) THEN NoMatch
    ELSE IF CurrencyEnd(s, SkipSpaces(s, ends[i])) > 0
    THEN [gs |-> p, ge |-> ends[i], end |-> CurrencyEnd(s, SkipSpaces(s, ends[i]))]
    ELSE SuffixedFrom(s, p, ends, i + 1)

\* r'(\d{1,3}(?:,\d{3})*(?:\.\d{2})?)\s*(?:Rs\.?|₹|INR)'
SuffixedAt(s, p) == SuffixedFrom(s, p, AmountCoreEnds(s, p), 1)

\* r'\b(\d{1,3}(?:,\d{3})+\.\d{2})\b'
GroupedAt(s, p) ==
    LET r == DigitRun(s, p)
        g == CommaGroups(s, p + r)
    IN  IF /\ r >= 1 /\ r <= 3 /\ Boundary(s, p)
           /\ g > p + r
           /\ At(s, g) = "." /\ DigitRun(s, g + 1) >= 2
           /\ Boundary(s, g + 3)
        THEN [gs |-> p, ge |-> g + 3, end |-> g + 3]
        ELSE NoMatch

\* r'\b(\d{4,})\b'
BareAt(s, p) ==
    LET r == DigitRun(s, p)
    IN  IF r >= 4 /\ Boundary(s, p) /\ Boundary(s, p + r)
        THEN [gs |-> p, ge |-> p + r, end |-> p + r]
        ELSE NoMatch

\* amount_patterns[k - 1] tried at position p
AmountPatternAt(k, s, p) ==
    CASE k = 1 -> PrefixedAt(s, p)
      [] k = 2 -> SuffixedAt(s, p)
      [] k = 3 -> GroupedAt(s, p)
      [] k = 4 -> BareAt(s, p)

\* the positions of s at which amount_patterns[k - 1] matches
AmountHits(k, s) == {q \in 1..Len(s) : AmountPatternAt(k, s, q).end > 0}

\* re.findall(amount_patterns[k - 1], s, re.IGNORECASE) from position p on,
\* one step per match: hits are the positions the pattern matches at, rest
\* those not before p, m the leftmost match
RECURSIVE FindAllIn(_, _, _, _)
FindAllStep(k, s, hits, m) ==
    <<Slice(s, m.gs, m.ge)>> \o FindAllIn(k, s, hits, m.end)

FindAllNext(k, s, hits, rest) ==
    IF rest = {} THEN <<>>
    ELSE FindAllStep(k, s, hits, AmountPatternAt(k, s, Least(rest)))

FindAllIn(k, s, hits, p) == FindAllNext(k, s, hits, {q \in hits : q >= p})

FindAllFrom(k, s, p) == FindAllIn(k, s, AmountHits(k, s), p)

\* the matches of all four patterns on one line, pattern by pattern
AmountMatches(line) ==
    Join([k \in 1..4 |-> FindAllFrom(k, line, 1)])

(***************************************************************************)
(* bank_patterns                                                           *)
(***************************************************************************)
credit_words == << <<"c","r">>, <<"c","r","e","d","i","t">>, <<"c","r","e","d","i","t","e","d">>, <<"d","e","p","o","s","i","t">>, <<"r","e","c","e","i","v","e","d">> >>

debit_words == << <<"d","r">>, <<"d","e","b","i","t">>, <<"d","e","b","i","t","e","d">>, <<"w","i","t","h","d","r","a","w">>, <<"w","i","t","h","d","r","a","w","n">>, <<"p","a","i","d">> >>

\* :? at q
ColonEnd(s, q) == IF At(s, q) = ":" THEN q + 1 ELSE q

\* (?:Rs\.?|₹)? at q
RupeesEnd(s, q) ==
    IF StartsAtI(s, q, <<"R","s">>) THEN (IF At(s, q + 2) = "." THEN q + 3 ELSE q + 2)
    ELSE IF At(s, q) = Rupee THEN q + 1 ELSE q

\* \s*:?\s*(?:Rs\.?|₹)?\s*(\d{1,3}(?:,\d{3})*(?:\.\d{2})?) at p
BankTailAt(s, p) ==
    SpacedAmountAt(s,
        SkipSpaces(s, RupeesEnd(s, SkipSpaces(s, ColonEnd(s, SkipSpaces(s, p))))))

\* (?:w1|w2|...) followed by the tail, at p: the first of words[i..] that lets
\* the rest match, m being the tail after words[i]
RECURSIVE BankFrom(_, _, _, _)
BankWord(words, s, p, i, m) ==
    IF m.end > 0 THEN m ELSE BankFrom(words, s, p, i + 1)

BankFrom(words, s, p, i) ==
    IF i > Len(words) THEN NoMatch
    ELSE IF ~StartsAtI(s, p, words[i]) THEN BankFrom(words, s, p, i + 1)
    ELSE BankWord(words, s, p, i, BankTailAt(s, p + Len(words[i])))

BankAt(words, s, p) == BankFrom(words, s, p, 1)

\* the positions of s at which the bank pattern of these words matches
BankHits(words, s) == {q \in 1..Len(s) : BankAt(words, s, q).end > 0}

\* re.findall(bank_patterns[...], text, re.IGNORECASE) from position p on,
\* one step per match: hits are the positions the pattern matches at, rest
\* those not before p, m the leftmost match
RECURSIVE BankFindAllIn(_, _, _, _)
BankFindAllStep(words, s, hits, m) ==
    <<Slice(s, m.gs, m.ge)>> \o BankFindAllIn(words, s, hits, m.end)

BankFindAllNext(words, s, hits, rest) ==
    IF rest = {} THEN <<>>
    ELSE BankFindAllStep(words, s, hits, BankAt(words, s, Least(rest)))

BankFindAllIn(words, s, hits, p) ==
    BankFindAllNext(words, s, hits, {q \in hits : q >= p})

BankFindAllFrom(words, s, p) == BankFindAllIn(words, s, BankHits(words, s), p)

(***************************************************************************)
(* extract_total_amount                                                    *)
(***************************************************************************)
\* the matches that _clean_amount turns into a number (`if amount is not None`)
Cleanable(ms) == SelectSeq(ms, LAMBDA m : IsNum(CleanAmount(m)))

\* candidates.append({...}) for each match of one line
LineAppend(good, line, priority, line_index) ==
    [j \in 1..Len(good) |->
        [amount |-> CleanAmount(good[j]), priority |-> priority,
         line |-> line, line_index |-> line_index]]

\* the candidates one line gives: one per match that cleans to a number
LineCandidates(line, priority, line_index) ==
    LineAppend(Cleanable(AmountMatches(line)), line, priority, line_index)

has_total_keyword(line) == ContainsAny(Lower(line), total_keywords)

should_ignore(line) == ContainsAny(Lower(line), ignore_keywords)

\* line 180 without the grand total / net amount boost
FlatLinePriority(line) == 100

SameLinePriority(line) ==
    IF Contains(Lower(line), <<"g","r","a","n","d"," ","t","o","t","a","l">>) \/ Contains(Lower(line), <<"n","e","t"," ","a","m","o","u","n","t">>)
    THEN 200 ELSE 100

\* line 204 with a priority above the same-line ones
NextLineOutranks(next_line) == 110

\* line 204: 'priority': 90, slightly lower than same-line
NextLinePriority(next_line) == 90

\* Strategy 1 (lines 168-208): line_index counts from 0
KeywordCandidates(lines) ==
    Join([i \in 1..Len(lines) |->
        IF has_total_keyword(lines[i]) /\ ~should_ignore(lines[i])
        THEN LineCandidates(lines[i], SameLinePriority(lines[i]), i - 1)
             \o (IF i + 1 <= Len(lines)
                 THEN LineCandidates(lines[i + 1], NextLinePriority(lines[i + 1]), i)
                 ELSE <<>>)
        ELSE <<>>])

\* candidates.append({...}) for each match of one bank pattern
BankAppend(good) ==
    [j \in 1..Len(good) |->
        [amount |-> CleanAmount(good[j]), priority |-> 80,
         line |-> good[j], line_index |-> -1]]

\* the candidates of one bank pattern over the whole text
BankPatternCandidates(words, text) ==
    BankAppend(Cleanable(BankFindAllFrom(words, text, 1)))

\* Strategy 2 (lines 213-224): credit, then debit; balance is skipped
BankCandidates(text) ==
    BankPatternCandidates(credit_words, text) \o BankPatternCandidates(debit_words, text)

\* amount.is_integer() and 2000 <= amount <= 2100
IsYear(v) == IsInteger(v) /\ v.num >= 2000 /\ v.num <= 2100

\* lines 238-244 without `amount > 1.0`
KeepSmallAmounts(ms) ==
    SelectSeq([j \in 1..Len(ms) |-> CleanAmount(ms[j])],
              LAMBDA v : IsNum(v) /\ ~IsYear(v))

\* the amounts of one line that Strategy 3 keeps (lines 238-244)
KeptAmounts(ms) ==
    SelectSeq([j \in 1..Len(ms) |-> CleanAmount(ms[j])],
              LAMBDA v : IsNum(v) /\ LessThan(Whole(1), v) /\ ~IsYear(v))

\* all_amounts of Strategy 3 (lines 228-244)
AllAmounts(lines) ==
    Join([i \in 1..Len(lines) |->
        IF should_ignore(lines[i]) THEN <<>>
        ELSE KeptAmounts(AmountMatches(lines[i]))])

\* max(all_amounts)
MaxAmount(vs) ==
    vs[CHOOSE i \in 1..Len(vs) : \A j \in 1..Len(vs) : ~LessThan(vs[i], vs[j])]

\* lines 246-254: the one candidate of Strategy 3
LargestOf(all_amounts) ==
    IF all_amounts # <<>>
    THEN << [amount |-> MaxAmount(all_amounts), priority |-> 50,
             line |-> <<>>, line_index |-> -1] >>
    ELSE <<>>

\* Strategy 3 (lines 226-254)
LargestCandidates(lines) == LargestOf(AllAmounts(lines))

\* Strategy 2 run without its guard `if not candidates`
AlwaysBankCandidates(c1, text) == c1 \o BankCandidates(text)

\* candidates after Strategy 2: it runs `if not candidates`
WithBankCandidates(c1, text) ==
    IF c1 = <<>> THEN BankCandidates(text) ELSE c1

\* candidates after Strategy 3: it runs `if not candidates`
WithLargestCandidates(c2, lines) ==
    IF c2 = <<>> THEN LargestCandidates(lines) ELSE c2

\* the list `candidates` as it stands at line 256
CandidatesOf(text, lines) ==
    WithLargestCandidates(
        WithBankCandidates(KeywordCandidates(lines), text), lines)

Candidates(text) == CandidatesOf(text, SplitOn(text, "\n"))

\* an unstable sort: c is put behind the entries of its own priority
InsertBehindEqual(c, sorted) ==
    LET k == Cardinality({j \in 1..Len(sorted) : sorted[j].priority >= c.priority})
    IN  SubSeq(sorted, 1, k) \o <<c>> \o SubSeq(sorted, k + 1, Len(sorted))

\* list.sort(key=priority, reverse=True): stable, so equal priorities keep
\* their order; by insertion from the right
RECURSIVE SortByPriority(_)
InsertByPriority(c, sorted) ==
    LET k == Cardinality({j \in 1..Len(sorted) : sorted[j].priority > c.priority})
    IN  SubSeq(sorted, 1, k) \o <<c>> \o SubSeq(sorted, k + 1, Len(sorted))

SortByPriority(cs) ==
    IF cs = <<>> THEN <<>>
    ELSE InsertByPriority(Head(cs), SortByPriority(Tail(cs)))

\* lines 257-261 without the `if candidates` test: [][0] raises IndexError
SelectUnguarded(candidates) ==
    IF candidates # <<>> THEN SortByPriority(candidates)[1].amount ELSE Raised

\* lines 257-261
SelectAmount(candidates) ==
    IF candidates # <<>> THEN SortByPriority(candidates)[1].amount ELSE None

ExtractTotalAmount(text) == SelectAmount(Candidates(text))

(***************************************************************************)
(* extract_date                                                            *)
(***************************************************************************)
MonthAbbr ==
    << <<"j","a","n">>, <<"f","e","b">>, <<"m","a","r">>, <<"a","p","r">>, <<"m","a","y">>, <<"j","u","n">>,
       <<"j","u","l">>, <<"a","u","g">>, <<"s","e","p">>, <<"o","c","t">>, <<"n","o","v">>, <<"d","e","c">> >>

MonthFull ==
    << <<"j","a","n","u","a","r","y">>, <<"f","e","b","r","u","a","r","y">>, <<"m","a","r","c","h">>, <<"a","p","r","i","l">>, <<"m","a","y">>, <<"j","u","n","e">>,
       <<"j","u","l","y">>, <<"a","u","g","u","s","t">>, <<"s","e","p","t","e","m","b","e","r">>, <<"o","c","t","o","b","e","r">>, <<"n","o","v","e","m","b","e","r">>,
       <<"d","e","c","e","m","b","e","r">> >>

\* the capitalised abbreviations as date_patterns writes them
MonthNames ==
    << <<"J","a","n">>, <<"F","e","b">>, <<"M","a","r">>, <<"A","p","r">>, <<"M","a","y">>, <<"J","u","n">>,
       <<"J","u","l">>, <<"A","u","g">>, <<"S","e","p">>, <<"O","c","t">>, <<"N","o","v">>, <<"D","e","c">> >>

IsDateSep(c) == c = "/" \/ c = "-"

Min(a, b) == IF a < b THEN a ELSE b

\* (?:Jan|Feb|...|Dec) at p; icase is re.IGNORECASE
MonthNameAt(s, p, icase) ==
    \E m \in 1..12 :
        IF icase THEN StartsAtI(s, p, MonthNames[m]) ELSE StartsAt(s, p, MonthNames[m])

\* [a-z]* from p on: the number of letters it takes
RECURSIVE LetterRun(_, _, _)
LetterRun(s, p, icase) ==
    IF At(s, p) \in Lowers \/ (icase /\ At(s, p) \in Uppers)
    THEN 1 + LetterRun(s, p + 1, icase) ELSE 0

\* r'\d{1,2}[/-]\d{1,2}[/-]\d{2,4}' at p: the position after the match, or 0
NumericDateAt(s, p) ==
    LET d1 == Min(DigitRun(s, p), 2)
        q  == p + d1 + 1
        d2 == Min(DigitRun(s, q), 2)
        y  == q + d2 + 1
    IN  IF /\ d1 >= 1 /\ IsDateSep(At(s, p + d1))
           /\ d2 >= 1 /\ IsDateSep(At(s, q + d2))
           /\ DigitRun(s, y) >= 2
        THEN y + Min(DigitRun(s, y), 4) ELSE 0

\* r'\d{4}[/-]\d{1,2}[/-]\d{1,2}' at p
IsoDateAt(s, p) ==
    LET q  == p + 5
        d2 == Min(DigitRun(s, q), 2)
        z  == q + d2 + 1
    IN  IF /\ DigitRun(s, p) >= 4 /\ IsDateSep(At(s, p + 4))
           /\ d2 >= 1 /\ IsDateSep(At(s, q + d2))
           /\ DigitRun(s, z) >= 1
        THEN z + Min(DigitRun(s, z), 2) ELSE 0

\* r'\d{1,2}\s+(?:Jan|...|Dec)[a-z]*\s+\d{2,4}' at p
DayMonthAt(s, p, icase) ==
    LET d1 == Min(DigitRun(s, p), 2)
        q  == SkipSpaces(s, p + d1)
        l  == q + 3 + LetterRun(s, q + 3, icase)
        y  == SkipSpaces(s, l)
    IN  IF /\ d1 >= 1 /\ IsSpace(At(s, p + d1))
           /\ MonthNameAt(s, q, icase)
           /\ IsSpace(At(s, l))
           /\ DigitRun(s, y) >= 2
        THEN y + Min(DigitRun(s, y), 4) ELSE 0

\* r'(?:Jan|...|Dec)[a-z]*\s+\d{1,2},?\s+\d{4}' at p
MonthDayAt(s, p, icase) ==
    LET l  == p + 3 + LetterRun(s, p + 3, icase)
        q  == SkipSpaces(s, l)
        r  == DigitRun(s, q)
        c  == IF At(s, q + r) = "," THEN q + r + 1 ELSE q + r
        y  == SkipSpaces(s, c)
    IN  IF /\ MonthNameAt(s, p, icase)
           /\ IsSpace(At(s, l))
           /\ r >= 1 /\ r <= 2
           /\ IsSpace(At(s, c))
           /\ DigitRun(s, y) >= 4
        THEN y + 4 ELSE 0

\* date_patterns[k - 1] tried at p
DatePatternAt(k, s, p, icase) ==
    CASE k = 1 -> NumericDateAt(s, p)
      [] k = 2 -> IsoDateAt(s, p)
      [] k = 3 -> DayMonthAt(s, p, icase)
      [] k = 4 -> MonthDayAt(s, p, icase)

\* re.search(date_patterns[k - 1], s) finds a match
DateFound(k, s, icase) == \E p \in 1..Len(s) : DatePatternAt(k, s, p, icase) > 0

\* the start of the leftmost match, hits being the positions a match starts at
DateSearchStep(hits) == IF hits = {} THEN 0 ELSE Least(hits)

\* re.search(date_patterns[k - 1], s) from position p on: the start of the
\* leftmost match, or 0
DateSearchFrom(k, s, p, icase) ==
    DateSearchStep({q \in p..Len(s) : DatePatternAt(k, s, q, icase) > 0})

\* match.group(0) of the match that starts at p
DateGroup(k, s, p, icase) == Slice(s, p, DatePatternAt(k, s, p, icase))

\* match.group(0) of the leftmost match
DateMatch(k, s, icase) == DateGroup(k, s, DateSearchFrom(k, s, 1, icase), icase)

\* date_formats of line 142: "%x" is a directive, " " stands for \s+, any
\* other entry is a literal character
date_formats ==
    << <<"%d", "/", "%m", "/", "%Y">>, <<"%d", "-", "%m", "-", "%Y">>,
       <<"%d", "/", "%m", "/", "%y">>, <<"%d", "-", "%m", "-", "%y">>,
       <<"%Y", "-", "%m", "-", "%d">>, <<"%Y", "/", "%m", "/", "%d">>,
       <<"%d", " ", "%b", " ", "%Y">>, <<"%d", " ", "%B", " ", "%Y">>,
       <<"%b", " ", "%d", ",", " ", "%Y">>, <<"%B", " ", "%d", ",", " ", "%Y">> >>

NoFields == [d |-> 0, m |-> 0, y |-> -1]

\* {x} when cond holds, else {}
Opt(cond, x) == IF cond THEN {x} ELSE {}

\* the ways one directive or literal of a format matches s at p, as a set of
\* <<fields, position after>> (the regular expressions of _strptime.TimeRE)
StrpItem(item, s, p, f) ==
    LET num(n) == DigitsValue(Slice(s, p, p + n))
        has(n) == DigitRun(s, p) >= n
    IN  CASE item = "%d" ->
               \* 3[0-1]|[1-2]\d|0[1-9]|[1-9]| [1-9]
               Opt(has(2) /\ num(2) >= 1 /\ num(2) <= 31,
                   <<[f EXCEPT !.d = num(2)], p + 2>>)
               \cup Opt(has(1) /\ num(1) >= 1, <<[f EXCEPT !.d = num(1)], p + 1>>)
               \cup Opt(At(s, p) = " " /\ IsDigit(At(s, p + 1)) /\ At(s, p + 1) # "0",
                        <<[f EXCEPT !.d = DigitVal(At(s, p + 1))], p + 2>>)
          [] item = "%m" ->
               \* 1[0-2]|0[1-9]|[1-9]
               Opt(has(2) /\ num(2) >= 1 /\ num(2) <= 12,
                   <<[f EXCEPT !.m = num(2)], p + 2>>)
               \cup Opt(has(1) /\ num(1) >= 1, <<[f EXCEPT !.m = num(1)], p + 1>>)
          [] item = "%Y" ->
               Opt(has(4), <<[f EXCEPT !.y = num(4)], p + 4>>)
          [] item = "%y" ->
               Opt(has(2), <<[f EXCEPT !.y = IF num(2) < 69 THEN 2000 + num(2)
                                             ELSE 1900 + num(2)], p + 2>>)
          [] item = "%b" ->
               {<<[f EXCEPT !.m = m], p + 3>> :
                    m \in {n \in 1..12 : StartsAtI(s, p, MonthAbbr[n])}}
          [] item = "%B" ->
               {<<[f EXCEPT !.m = m], p + Len(MonthFull[m])>> :
                    m \in {n \in 1..12 : StartsAtI(s, p, MonthFull[n])}}
          [] item = " " ->
               {<<f, q>> : q \in {r \in (p + 1)..(Len(s) + 1) :
                                     \A j \in p..(r - 1) : IsSpace(At(s, j))}}
          [] OTHER ->
               Opt(LowerChar(At(s, p)) = LowerChar(item), <<f, p + 1>>)

\* the fields of every way fmt[i..] matches the whole of s[p..]
RECURSIVE StrpFrom(_, _, _, _, _)
StrpFrom(fmt, i, s, p, f) ==
    IF i > Len(fmt) THEN (IF p = Len(s) + 1 THEN {f} ELSE {})
    ELSE UNION { StrpFrom(fmt, i + 1, s, r[2], r[1]) : r \in StrpItem(fmt[i], s, p, f) }

IsLeap(y) == (y % 4 = 0 /\ y % 100 # 0) \/ y % 400 = 0

DaysInMonth(y, m) ==
    IF m = 2 THEN (IF IsLeap(y) THEN 29 ELSE 28)
    ELSE IF m \in {4, 6, 9, 11} THEN 30 ELSE 31

\* datetime(year, month, day) accepts the fields
ValidDate(f) == f.y >= 1 /\ f.d <= DaysInMonth(f.y, f.m)

\* the dates datetime.strptime(date_str, fmt) can return: none stands for
\* ValueError, and the formats of the source leave at most one
Strptime(date_str, fmt) ==
    {f \in StrpFrom(fmt, 1, date_str, 1, NoFields) : ValidDate(f)}

\* the first of date_formats[i..] that parses date_str, or 0
RECURSIVE FirstFormatFrom(_, _)
FirstFormatFrom(date_str, i) ==
    IF i > Len(date_formats) THEN 0
    ELSE IF Strptime(date_str, date_formats[i]) # {} THEN i
    ELSE FirstFormatFrom(date_str, i + 1)

FirstFormat(date_str) == FirstFormatFrom(date_str, 1)

\* the loop of lines 136-154 from pattern k on: the parsed date, or NoFields
\* when the loop ends without a return
RECURSIVE DateFromPattern(_, _)
DateParsed(k, text, date_str, i) ==
    IF i > 0 THEN CHOOSE f \in Strptime(date_str, date_formats[i]) : TRUE
    ELSE DateFromPattern(k + 1, text)

DateMatched(k, text, date_str) ==
    DateParsed(k, text, date_str, FirstFormat(date_str))

DateFromPattern(k, text) ==
    IF k > 4 THEN NoFields
    ELSE IF ~DateFound(k, text, TRUE) THEN DateFromPattern(k + 1, text)
    ELSE DateMatched(k, text, DateMatch(k, text, TRUE))

ParsedDate(text) == DateFromPattern(1, text)

\* n written with at least w digits
PadLeft(n, w) == Zeros(w - Len(DigitsOf(n))) \o DigitsOf(n)

\* strftime('%Y-%m-%d'): the C library decides whether a year below 1000 is
\* padded to four digits, so both spellings are outcomes
DateStrings(f) ==
    {PadLeft(f.y, 4) \o <<"-">> \o PadLeft(f.m, 2) \o <<"-">> \o PadLeft(f.d, 2),
     DigitsOf(f.y) \o <<"-">> \o PadLeft(f.m, 2) \o <<"-">> \o PadLeft(f.d, 2)}

\* lines 152-157: parsed.strftime, or datetime.now().strftime
DateOr(parsed, now) ==
    IF parsed # NoFields THEN DateStrings(parsed) ELSE DateStrings(now)

\* extract_date: what it can return when datetime.now() is the date `now`
ExtractDate(text, now) == DateOr(ParsedDate(text), now)

(***************************************************************************)
(* extract_description                                                     *)
(***************************************************************************)
known_merchants ==
    << <<"Z","o","m","a","t","o">>, <<"S","w","i","g","g","y">>, <<"U","b","e","r">>, <<"O","l","a">>, <<"A","m","a","z","o","n">>, <<"F","l","i","p","k","a","r","t">>,
       <<"M","y","n","t","r","a">>, <<"A","j","i","o">>, <<"S","t","a","r","b","u","c","k","s">>, <<"M","c","D","o","n","a","l","d","s">>, <<"K","F","C">>, <<"D","o","m","i","n","o","s">>,
       <<"P","i","z","z","a"," ","H","u","t">>, <<"B","u","r","g","e","r"," ","K","i","n","g">>, <<"S","u","b","w","a","y">>, <<"D","m","a","r","t">>, <<"B","i","g","B","a","s","k","e","t">>,
       <<"B","l","i","n","k","i","t">>, <<"Z","e","p","t","o">>, <<"D","u","n","z","o">> >>

label_words ==
    << <<"f","r","o","m">>, <<"t","o">>, <<"m","e","r","c","h","a","n","t">>, <<"v","e","n","d","o","r">>, <<"s","e","l","l","e","r">>, <<"s","t","o","r","e">> >>

paid_words == << <<"p","a","i","d"," ","t","o">>, <<"r","e","c","e","i","v","e","d"," ","f","r","o","m">> >>

transaction_type_keys ==
    << <<"p","a","y","m","e","n","t">>, <<"t","r","a","n","s","f","e","r">>, <<"d","e","p","o","s","i","t">>, <<"w","i","t","h","d","r","a","w","a","l">>, <<"p","u","r","c","h","a","s","e">>,
       <<"r","e","f","u","n","d">>, <<"f","o","o","d">>, <<"c","a","b">>, <<"t","r","i","p">>, <<"r","i","d","e">> >>

transaction_type_labels ==
    << <<"P","a","y","m","e","n","t"," ","T","r","a","n","s","a","c","t","i","o","n">>, <<"F","u","n","d"," ","T","r","a","n","s","f","e","r">>, <<"D","e","p","o","s","i","t">>, <<"W","i","t","h","d","r","a","w","a","l">>,
       <<"P","u","r","c","h","a","s","e">>, <<"R","e","f","u","n","d">>, <<"F","o","o","d"," ","O","r","d","e","r">>, <<"C","a","b"," ","S","e","r","v","i","c","e">>, <<"T","r","i","p">>,
       <<"R","i","d","e">> >>

\* [A-Za-z0-9\s&.-]
IsNameChar(c) ==
    c \in Uppers \/ c \in Lowers \/ IsDigit(c) \/ IsSpace(c) \/ c \in {"&", ".", "-"}

\* the first position from p on that holds no name character
NameRunEnd(s, p) == Least({q \in p..(Len(s) + 1) : ~IsNameChar(At(s, q))})

\* [A-Za-z0-9\s&.-]* from p on: the number of characters it takes
NameRun(s, p) == IF p > Len(s) THEN 0 ELSE NameRunEnd(s, p) - p

\* [\s:]
RECURSIVE LabelSepRun(_, _)
LabelSepRun(s, p) ==
    IF IsSpace(At(s, p)) \/ At(s, p) = ":" THEN 1 + LabelSepRun(s, p + 1) ELSE 0

\* [\s:]+([A-Za-z0-9\s&.-]+) at e: the n separators are taken greedily and
\* given back one by one until a name character follows
RECURSIVE LabelTailFrom(_, _, _)
LabelTailFrom(s, e, k) ==
    IF k < 1 THEN NoMatch
    ELSE IF NameRun(s, e + k) >= 1
    THEN [gs |-> e + k, ge |-> e + k + NameRun(s, e + k),
          end |-> e + k + NameRun(s, e + k)]
    ELSE LabelTailFrom(s, e, k - 1)

LabelTailAt(s, e) == LabelTailFrom(s, e, LabelSepRun(s, e))

\* (?:w1|w2|...)[\s:]+([A-Za-z0-9\s&.-]+) at p, ignoring case: the first of
\* words[i..] that lets the rest match, m being the tail after words[i]
RECURSIVE LabelledFrom(_, _, _, _)
LabelledWord(words, s, p, i, m) ==
    IF m.end > 0 THEN m ELSE LabelledFrom(words, s, p, i + 1)

LabelledFrom(words, s, p, i) ==
    IF i > Len(words) THEN NoMatch
    ELSE IF ~StartsAtI(s, p, words[i]) THEN LabelledFrom(words, s, p, i + 1)
    ELSE LabelledWord(words, s, p, i, LabelTailAt(s, p + Len(words[i])))

LabelledAt(words, s, p) == LabelledFrom(words, s, p, 1)

\* r'^([A-Z][A-Za-z0-9\s&.-]{2,30})' at p with re.MULTILINE | re.IGNORECASE
CapitalisedAt(s, p) ==
    IF /\ (p = 1 \/ At(s, p - 1) = "\n")
       /\ (At(s, p) \in Uppers \/ At(s, p) \in Lowers)
       /\ NameRun(s, p + 1) >= 2
    THEN [gs |-> p, ge |-> p + 1 + Min(NameRun(s, p + 1), 30),
          end |-> p + 1 + Min(NameRun(s, p + 1), 30)]
    ELSE NoMatch

\* merchant_patterns[k - 1] tried at p
MerchantPatternAt(k, s, p) ==
    CASE k = 1 -> LabelledAt(label_words, s, p)
      [] k = 2 -> LabelledAt(paid_words, s, p)
      [] k = 3 -> CapitalisedAt(s, p)

\* re.search(merchant_patterns[k - 1], s, I | M) from position p on: the
\* leftmost match, hits being the positions from p on the pattern matches at
MerchantSearchStep(k, s, hits) ==
    IF hits = {} THEN NoMatch ELSE MerchantPatternAt(k, s, Least(hits))

MerchantSearchFrom(k, s, p) ==
    MerchantSearchStep(k, s, {q \in p..Len(s) : MerchantPatternAt(k, s, q).end > 0})

MerchantSearch(k, s) == MerchantSearchFrom(k, s, 1)

MerchantFound(k, s) == MerchantSearch(k, s).end > 0

\* match.group(1)
MerchantGroup(s, m) == Slice(s, m.gs, m.ge)

\* the positions of s re.sub(r'\s+', ' ', s) keeps: every character but the
\* whitespace that follows whitespace
KeptPositions(s) ==
    SelectSeq([i \in 1..Len(s) |-> i],
              LAMBDA i : ~IsSpace(s[i]) \/ i = 1 \/ ~IsSpace(s[i - 1]))

CollapseKept(s, keep) ==
    [j \in 1..Len(keep) |-> IF IsSpace(s[keep[j]]) THEN " " ELSE s[keep[j]]]

\* re.sub(r'\s+', ' ', s)
CollapseSpaces(s) == CollapseKept(s, KeptPositions(s))

\* lines 315-317: merchant = re.sub(r'\s+', ' ', match.group(1).strip())
MerchantName(s, m) == CollapseSpaces(Strip(MerchantGroup(s, m)))

\* Strategy 2 (lines 305-319) from merchant_patterns[k - 1] on: the name it
\* returns, or <<>> when the loop ends without a return
RECURSIVE MerchantFrom(_, _)
MerchantReturn(k, text, m, merchant) ==
    IF m.end > 0 /\ Len(merchant) > 3 /\ Len(merchant) < 50 THEN merchant
    ELSE MerchantFrom(k + 1, text)

MerchantMatched(k, text, m) == MerchantReturn(k, text, m, MerchantName(text, m))

MerchantFrom(k, text) ==
    IF k > 3 THEN <<>> ELSE MerchantMatched(k, text, MerchantSearch(k, text))

AcceptedMerchant(text) == MerchantFrom(1, text)

\* [line.strip() for line in text.split('\n') if line.strip()]
StrippedLines(text) ==
    LET ls == SplitOn(text, "\n")
    IN  SelectSeq([i \in 1..Len(ls) |-> Strip(ls[i])], LAMBDA l : l # <<>>)

\* str.isdigit()
IsAllDigits(s) == s # <<>> /\ \A i \in 1..Len(s) : IsDigit(s[i])

\* Strategy 3 keeps the line (lines 325-340)
IsCleanLine(line) ==
    /\ ~(Len(line) < 4 \/ IsAllDigits(line))
    /\ ~((\E k \in 1..4 : DateFound(k, line, FALSE)) /\ Len(line) < 15)
    /\ ~should_ignore(line)
    /\ Len(CollapseSpaces(line)) > 4

\* the index among lines[:5] of the line Strategy 3 returns, or 0
RECURSIVE FirstCleanFrom(_, _)
FirstCleanFrom(lines, i) ==
    IF i > Min(Len(lines), 5) THEN 0
    ELSE IF IsCleanLine(lines[i]) THEN i
    ELSE FirstCleanFrom(lines, i + 1)

FirstCleanLine(lines) == FirstCleanFrom(lines, 1)

\* the first key of transaction_types found in text_lower, or 0
RECURSIVE FirstTypeFrom(_, _)
FirstTypeFrom(text_lower, i) ==
    IF i > Len(transaction_type_keys) THEN 0
    ELSE IF Contains(text_lower, transaction_type_keys[i]) THEN i
    ELSE FirstTypeFrom(text_lower, i + 1)

FirstTypeKey(text) == FirstTypeFrom(Lower(text), 1)

\* the first of known_merchants found in text_lower, or 0
RECURSIVE FirstKnownFrom(_, _)
FirstKnownFrom(text_lower, i) ==
    IF i > Len(known_merchants) THEN 0
    ELSE IF Contains(text_lower, Lower(known_merchants[i])) THEN i
    ELSE FirstKnownFrom(text_lower, i + 1)

FirstKnownMerchant(text) == FirstKnownFrom(Lower(text), 1)

\* s[:n]
Truncate(s, n) == SubSeq(s, 1, Min(Len(s), n))

\* Strategies 4 and 5 (lines 354-363), i being the first type key found
TypeDescription(i) ==
    IF i > 0 THEN transaction_type_labels[i] ELSE <<"T","r","a","n","s","a","c","t","i","o","n">>

\* Strategy 3 (lines 321-352), i being the line it returns
LineDescription(text, lines, i) ==
    IF i > 0 THEN Truncate(CollapseSpaces(lines[i]), 100)
    ELSE TypeDescription(FirstTypeKey(text))

CleanLineDescription(text, lines) ==
    LineDescription(text, lines, FirstCleanLine(lines))

\* Strategy 2 (lines 305-319), merchant being the name it found
MerchantDescription(text, merchant) ==
    IF merchant # <<>> THEN merchant
    ELSE CleanLineDescription(text, StrippedLines(text))

\* Strategies 1 and 2 in the other order: the labelled merchant wins
LabelBeforeKnown(text, i) ==
    IF AcceptedMerchant(text) # <<>> THEN AcceptedMerchant(text)
    ELSE IF i > 0 THEN known_merchants[i]
    ELSE CleanLineDescription(text, StrippedLines(text))

\* Strategy 1 (lines 298-303), i being the first known merchant found
KnownDescription(text, i) ==
    IF i > 0 THEN known_merchants[i]
    ELSE MerchantDescription(text, AcceptedMerchant(text))

ExtractDescription(text) == KnownDescription(text, FirstKnownMerchant(text))

(***************************************************************************)
(* detect_transaction_type                                                 *)
(***************************************************************************)
income_keywords ==
    << <<"c","r","e","d","i","t">>, <<"c","r","e","d","i","t","e","d">>, <<"r","e","c","e","i","v","e","d">>, <<"d","e","p","o","s","i","t">>, <<"d","e","p","o","s","i","t","e","d">>,
       <<"s","a","l","a","r","y">>, <<"p","a","y","m","e","n","t"," ","r","e","c","e","i","v","e","d">>, <<"r","e","f","u","n","d">>, <<"c","a","s","h","b","a","c","k">>,
       <<"t","r","a","n","s","f","e","r","r","e","d"," ","t","o"," ","y","o","u","r"," ","a","c","c","o","u","n","t">>, <<"a","d","d","e","d"," ","t","o">>, <<"i","n","c","o","m","e">> >>

expense_keywords ==
    << <<"d","e","b","i","t">>, <<"d","e","b","i","t","e","d">>, <<"p","a","i","d">>, <<"p","a","y","m","e","n","t">>, <<"p","u","r","c","h","a","s","e">>,
       <<"w","i","t","h","d","r","a","w","n">>, <<"t","r","a","n","s","f","e","r","r","e","d"," ","f","r","o","m"," ","y","o","u","r"," ","a","c","c","o","u","n","t">>, <<"e","x","p","e","n","s","e">>,
       <<"b","i","l","l">>, <<"i","n","v","o","i","c","e">>, <<"o","r","d","e","r">>, <<"b","o","o","k","i","n","g">> >>

\* the number of places of s where kw starts
Occurrences(s, kw) ==
    Cardinality({p \in 1..(Len(s) - Len(kw) + 1) : StartsAt(s, p, kw)})

\* the occurrences in s of the first k keywords of a table, added up
RECURSIVE OccurrencesUpTo(_, _, _)
OccurrencesUpTo(s, table, k) ==
    IF k = 0 THEN 0
    ELSE OccurrencesUpTo(s, table, k - 1) + Occurrences(s, table[k])

\* lines 386-387 with text_lower.count(keyword) for 1: a keyword counts once
\* for each of its occurrences
OccurrenceScore(text, table) ==
    OccurrencesUpTo(Lower(text), table, Len(table))

\* sum(1 for keyword in table if keyword in text_lower)
Score(text, table) ==
    Cardinality({k \in 1..Len(table) : Contains(Lower(text), table[k])})

income_score(text) == Score(text, income_keywords)

expense_score(text) == Score(text, expense_keywords)

\* line 389 with >= for >: a tie goes to income
IncomeOnTie(text, description) ==
    IF income_score(text) >= expense_score(text) THEN "income" ELSE "expense"

\* lines 386-392 with description_lower in the place of text_lower
TypeOfDescription(text, description) ==
    IF income_score(description) > expense_score(description)
    THEN "income" ELSE "expense"

\* lines 389-392
DetectTransactionType(text, description) ==
    IF income_score(text) > expense_score(text) THEN "income" ELSE "expense"

(***************************************************************************)
(* State                                                                   *)
(***************************************************************************)
VARIABLES
    pc,                 \* where the call of extract_transactions stands
    image,              \* whether the uploaded bytes decode: "ok" or "bad"
    cfg,                \* extract_text: the next of the three configs, 1..4
    best_text,          \* extract_text: best_text
    max_len,            \* extract_text: max_len
    text,               \* extract_transactions: text
    text_raw,           \* extract_transactions: text_raw
    amount,             \* extract_transactions: amount
    candidates,         \* extract_total_amount: candidates, as left by its last call
    ocr_calls,          \* calls of pytesseract.image_to_string made in this call
    date,               \* extract_transactions: date
    description,        \* extract_transactions: description
    transaction_type,   \* extract_transactions: transaction_type
    result,             \* the list extract_transactions returned
    ocr_texts,          \* extract_text: what the recognition calls returned, when kept
    cl_pc,              \* _clean_amount driver: "in", "cleaned", "recleaned"
    cl_in,              \* the string given to _clean_amount
    cl_out,             \* what _clean_amount returned for cl_in
    cl_again,           \* what _clean_amount returned for str(cl_out)
    engine,             \* the attributes of app.py's one EnhancedOCREngine
    calls               \* the calls of extract_transactions under way on it

callVars ==
    <<pc, image, cfg, best_text, max_len, text, text_raw, amount, candidates,
      ocr_calls, date, description, transaction_type, result, ocr_texts>>

cleanVars == <<cl_pc, cl_in, cl_out, cl_again>>

sharedVars == <<engine, calls>>

vars == <<callVars, cleanVars, sharedVars>>

\* no call of extract_transactions is under way
CallIdle ==
    /\ pc = "idle"
    /\ image = "none"
    /\ cfg = 0
    /\ best_text = <<>>
    /\ max_len = 0
    /\ text = <<>>
    /\ text_raw = <<>>
    /\ amount = None
    /\ candidates = <<>>
    /\ ocr_calls = 0
    /\ date = <<>>
    /\ description = <<>>
    /\ transaction_type = ""
    /\ result = <<>>
    /\ ocr_texts = <<>>

CleanIdle ==
    /\ cl_pc = "off"
    /\ cl_in = <<>>
    /\ cl_out = None
    /\ cl_again = None

\* the attributes __init__ sets: the two keyword lists as they are, each
\* pattern list by the matchers of this module, in the order of the list
EngineTables ==
    [ total_keywords    |-> total_keywords,
      ignore_keywords   |-> ignore_keywords,
      date_patterns     |-> <<"NumericDateAt", "IsoDateAt", "DayMonthAt", "MonthDayAt">>,
      amount_patterns   |-> <<"PrefixedAt", "SuffixedAt", "GroupedAt", "BareAt">>,
      bank_patterns     |-> [credit |-> credit_words, debit |-> debit_words],
      merchant_patterns |-> <<label_words, paid_words, <<"CapitalisedAt">> >> ]

\* the callers that may be inside extract_transactions at the same time
CallIds == {1, 2}

\* the locals of a call that has not begun
IdleCall ==
    [ pc |-> "idle", first |-> <<>>, raw |-> <<>>, raw_failed |-> FALSE,
      text |-> <<>>, amount |-> None, result |-> <<>>, overlapped |-> FALSE ]

\* ocr_engine = EnhancedOCREngine(), no call under way
SharedIdle ==
    /\ engine = EngineTables
    /\ calls = [c \in CallIds |-> IdleCall]

(***************************************************************************)
(* What the recognition adapter may return: the documents of up to         *)
(* MaxDocLines lines out of DocLines, and documents written out in full.   *)
(***************************************************************************)
MaxDocLines == 2

DocLines ==
    { <<"G","r","a","n","d"," ","T","o","t","a","l"," ","1","2","0","0">>, <<"N","e","t"," ","A","m","o","u","n","t"," ","5","0","0","0">>, <<"T","o","t","a","l"," ","7","5","0","0">>, <<"P","a","i","d"," ","R","s"," ","3","0","0">>,
      <<"S","u","b","t","o","t","a","l"," ","9","0","0","0">>, <<"G","S","T"," ","1",",","1","8","0",".","0","0">> }

PoolDocs ==
    { JoinWith(ls, <<"\n">>) :
          ls \in UNION { [1..n -> DocLines] : n \in 1..MaxDocLines } }

CafeReceipt ==
    <<"A","B","C"," ","C","A","F","E","\n","D","a","t","e",":"," ","1","2","/","0","3","/","2","0","2","4","\n","S","u","b","t","o","t","a","l",":"," ","4","5","0",".","0","0","\n","C","G","S","T",":"," ","2","0",".","0","0","\n","T","o","t","a","l",":"," ","4","9","5",".","0","0">>

YearTotalBare == <<"D","a","t","e"," ","1","5","/","0","3","/","2","0","2","4","\n","T","o","t","a","l"," ","2","0","2","4">>

YearTotalDecimal == <<"D","a","t","e"," ","1","5","/","0","3","/","2","0","2","4","\n","T","o","t","a","l"," ","2","0","2","4",".","0","0">>

\* a known merchant and a labelled merchant in one text
ZomatoAndLabel == <<"Z","o","m","a","t","o"," ","o","r","d","e","r","\n","P","a","i","d"," ","t","o"," ","X","Y","Z"," ","S","t","o","r","e","\n","T","o","t","a","l"," ","R","s"," ","1","5","0","0">>

\* a text with no merchant, no line of more than four characters, no type keyword
NoStageText == <<"₹","5","0","0","\n","₹","2","0","0">>

\* one line of 124 characters whose 100th is a space
LongLine == <<"₹","7","0"," ","a","b"," ","a","b"," ","a","b"," ","a","b"," ","a","b"," ","a","b"," ","a","b"," ","a","b"," ","a","b"," ","a","b"," ","a","b"," ","a","b"," ","a","b"," ","a","b"," ","a","b"," ","a","b"," ","a","b"," ","a","b"," ","a","b"," ","a","b"," ","a","b"," ","a","b"," ","a","b"," ","a","b"," ","a","b"," ","a","b"," ","a","b"," ","a","b"," ","a","b"," ","a","b"," ","a","b"," ","a","b"," ","a","b"," ","a","b"," ","a","b"," ","a","b"," ","a","b"," ","a","b"," ","a","b"," ","a","b"," ">>

\* one income indicator (refund) and one expense indicator (paid)
TiedIndicators == <<"R","e","f","u","n","d"," ","p","a","i","d"," ","R","s"," ","7","0","0">>

\* a date-shaped text whose year is below 1000
EarlyYear == <<"1","2","/","0","3","/","0","0","2","4","\n","R","s"," ","7","0","0">>

\* a date-shaped text no format parses (February has no 31st)
UnparseableDate == <<"3","1","/","0","2","/","2","0","2","4","\n","R","s"," ","7","0","0">>

\* total-keyword lines whose amount has a currency prefix and four digits
PrefixedTotal == <<"T","o","t","a","l"," ","R","s"," ","1","5","0","0">>

PrefixedAmountDue == <<"A","m","o","u","n","t"," ","d","u","e"," ","₹","2","5","0","0",".","0","0">>

\* a total keyword alone on its line, then a line with an ignore keyword
TotalThenGst == <<"T","o","t","a","l","\n","G","S","T"," ","1",",","1","8","0",".","0","0">>

\* an unlabelled line holding a number in the range of years, with decimals
DecimalInYearRange == <<"2","0","2","4",".","5","0">>

\* unlabelled amounts, some of them not above 1
OneRupee == <<"R","s"," ","1",".","0","0">>

HalfAndThree == <<"R","s"," ","0",".","5","0"," ","a","n","d"," ","R","s"," ","3">>

\* a text whose only date is written YYYY-MM-DD
IsoDated == <<"2","0","2","4","-","0","3","-","1","2","\n","R","s"," ","7","0","0">>

\* a text that repeats one income indicator and names two expense indicators
RepeatedSalary == <<"s","a","l","a","r","y"," ","s","a","l","a","r","y"," ","s","a","l","a","r","y"," ","b","i","l","l"," ","i","n","v","o","i","c","e"," ","R","s"," ","7","0","0">>

\* a text with income indicators whose description, "Amazon", has none
AmazonRefund == <<"A","m","a","z","o","n"," ","r","e","f","u","n","d"," ","c","r","e","d","i","t","e","d"," ","R","s"," ","5","0","0">>

\* a grand total of zeros above a total
ZeroGrandTotal == <<"G","r","a","n","d"," ","T","o","t","a","l"," ","0","0","0","0","\n","T","o","t","a","l"," ","R","s"," ","5","0","0">>

ScenarioDocs ==
    { CafeReceipt, YearTotalBare, YearTotalDecimal,
      <<"S","u","b","t","o","t","a","l"," ","9","0","0","\n","G","r","a","n","d"," ","T","o","t","a","l"," ","1","2","0","0">>, <<"G","r","a","n","d"," ","T","o","t","a","l"," ","1","2","0","0","\n","S","u","b","t","o","t","a","l"," ","9","0","0">>,
      <<"G","S","T"," ","1",",","1","8","0",".","0","0","\n","T","o","t","a","l"," ","7","5","0","0">>, <<>>,
      <<"R","s"," ","5","0">>, <<"R","s"," ","5">>, <<" ","R","s"," ","5","\n">>, <<"T","o","t","a","l"," ","0","0","0","0">>, <<"R","s">>, <<"1",",","2","3","4",".","5","6">>,
      <<"S","a","l","a","r","y"," ","c","r","e","d","i","t","e","d"," ","4","5",",","0","0","0",".","0","0">>, <<"P","a","i","d"," ","t","o"," ","X","Y","Z"," ","S","t","o","r","e","\n","T","o","t","a","l"," ","R","s"," ","1","5","0","0">>,
      <<"1","2"," ","M","a","r","c","h"," ","2","0","2","4","\n","A","m","o","u","n","t"," ","2","0","2","4",".","5","0">>,
      ZomatoAndLabel, NoStageText, <<"₹","5","0","0","\n","#","t","a","x"," ","r","i","d","e">>, LongLine,
      TiedIndicators, EarlyYear, UnparseableDate, PrefixedTotal, PrefixedAmountDue,
      TotalThenGst, DecimalInYearRange, OneRupee, HalfAndThree, IsoDated,
      RepeatedSalary, AmazonRefund, ZeroGrandTotal }

OcrOutputs == PoolDocs \cup ScenarioDocs

Images == {"ok", "bad"}

\* the dates datetime.now() gives
ProcessingDates == { [d |-> 3, m |-> 11, y |-> 2026] }

(***************************************************************************)
(* extract_transactions, step by step                                      *)
(***************************************************************************)
\* the caller (upload_and_process) calls extract_transactions(file)
Call ==
    /\ pc = "idle"
    /\ image' \in Images
    /\ pc' = "open"
    /\ UNCHANGED <<cfg, best_text, max_len, text, amount, candidates, ocr_calls,
                   date, description, transaction_type, result, text_raw, ocr_texts, cleanVars, sharedVars>>

\* lines 399-405: image_file.read() and Image.open; any exception returns []
OpenImage ==
    /\ pc = "open"
    /\ IF image = "ok"
       THEN /\ pc' = "ocr"
            /\ cfg' = 1
            /\ result' = result
       ELSE /\ pc' = "done"
            /\ cfg' = cfg
            /\ result' = <<>>
    /\ UNCHANGED <<image, best_text, max_len, text, amount, candidates, ocr_calls,
                   date, description, transaction_type, text_raw, ocr_texts, cleanVars, sharedVars>>

\* line 123 with >= for >: a text as long as the best one replaces it
AsLongText(cleaned_text, longest) == Len(cleaned_text) >= longest

\* line 123: if len(cleaned_text) > max_len
LongerText(cleaned_text, longest) == Len(cleaned_text) > longest

\* lines 120-125: one pass of the loop over configs, the adapter returning a
\* text t of `outputs`; `keep` says whether ocr_texts records t
OcrConfigOn(outputs, keep) ==
    /\ pc = "ocr"
    /\ cfg \in 1..3
    /\ \E t \in outputs :
         /\ LET cleaned_text == Strip(t)
            IN  IF LongerText(cleaned_text, max_len)
                THEN max_len' = Len(cleaned_text) /\ best_text' = cleaned_text
                ELSE max_len' = max_len /\ best_text' = best_text
         /\ ocr_texts' = IF keep THEN Append(ocr_texts, t) ELSE ocr_texts
    /\ cfg' = cfg + 1
    /\ ocr_calls' = ocr_calls + 1
    /\ UNCHANGED <<pc, image, text, amount, candidates, date, description,
                   transaction_type, result, text_raw, cleanVars, sharedVars>>

OcrConfig == OcrConfigOn(OcrOutputs, FALSE)

\* line 127 and line 409: return best_text; text = self.extract_text(image)
ExtractTextReturn ==
    /\ pc = "ocr"
    /\ cfg = 4
    /\ text' = best_text
    /\ pc' = "amount1"
    /\ cfg' = 0 /\ best_text' = <<>> /\ max_len' = 0
    /\ UNCHANGED <<image, amount, candidates, ocr_calls,
                   date, description, transaction_type, result, text_raw, ocr_texts, cleanVars, sharedVars>>

\* lines 104, 128-130: preprocess_image raises before any recognition; return ""
PreprocessFails ==
    /\ pc = "ocr"
    /\ cfg = 1
    /\ text' = <<>>
    /\ pc' = "amount1"
    /\ cfg' = 0 /\ best_text' = <<>> /\ max_len' = 0
    /\ UNCHANGED <<image, amount, candidates, ocr_calls,
                   date, description, transaction_type, result, text_raw, ocr_texts, cleanVars, sharedVars>>

\* lines 121, 128-130: a recognition call raises; return ""
OcrConfigFails ==
    /\ pc = "ocr"
    /\ cfg \in 1..3
    /\ ocr_calls' = ocr_calls + 1
    /\ text' = <<>>
    /\ pc' = "amount1"
    /\ cfg' = 0 /\ best_text' = <<>> /\ max_len' = 0
    /\ UNCHANGED <<image, amount, candidates,
                   date, description, transaction_type, result, text_raw, ocr_texts, cleanVars, sharedVars>>

\* line 414 without its test: the raw pass runs after every first pass
AlwaysRaw(a) == "raw"

\* line 414: `if not amount` chooses the raw pass
AfterAmount(a) == IF ~Truthy(a) THEN "raw" ELSE "check"

\* line 411: amount = self.extract_total_amount(text)
FirstAmount ==
    /\ pc = "amount1"
    /\ candidates' = Candidates(text)
    /\ amount' = SelectAmount(candidates')
    /\ pc' = AfterAmount(amount')
    /\ UNCHANGED <<image, cfg, best_text, max_len, text, ocr_calls,
                   date, description, transaction_type, result, text_raw, ocr_texts, cleanVars, sharedVars>>

\* line 418: text_raw = pytesseract.image_to_string(image)
RawOcr ==
    /\ pc = "raw"
    /\ \E t \in OcrOutputs : text_raw' = t
    /\ ocr_calls' = ocr_calls + 1
    /\ pc' = "amount2"
    /\ UNCHANGED <<image, cfg, best_text, max_len, text, amount, candidates,
                   date, description, transaction_type, result, ocr_texts, cleanVars, sharedVars>>

\* line 418 outside any try: the failure leaves extract_transactions
RawFailurePropagates == "raised"

\* lines 421-422: except Exception: the failure is printed and the call goes on
AfterRawFailure == "check"

\* line 418 raises
RawOcrFails ==
    /\ pc = "raw"
    /\ ocr_calls' = ocr_calls + 1
    /\ pc' = AfterRawFailure
    /\ UNCHANGED <<image, cfg, best_text, max_len, text, amount, candidates,
                   date, description, transaction_type, result, text_raw, ocr_texts, cleanVars, sharedVars>>

\* line 419 with the first-pass text kept as the text of record
KeepFirstText(first, raw) == first

\* line 419: text = text_raw, whatever the raw text holds
TextAfterRaw(first, raw) == raw

\* lines 419-420: text = text_raw; amount = self.extract_total_amount(text)
SecondAmount ==
    /\ pc = "amount2"
    /\ text' = TextAfterRaw(text, text_raw)
    /\ candidates' = Candidates(text')
    /\ amount' = SelectAmount(candidates')
    /\ pc' = "check"
    /\ UNCHANGED <<image, cfg, best_text, max_len, text_raw, ocr_calls,
                   date, description, transaction_type, result, ocr_texts, cleanVars, sharedVars>>

\* line 424 without the length test
EmptyOnly(t) == t = <<>>

\* line 424: not text or len(text.strip()) < 5
TooShort(t) == t = <<>> \/ Len(Strip(t)) < 5

\* lines 424-426
CheckText ==
    /\ pc = "check"
    /\ IF TooShort(text)
       THEN pc' = "done" /\ result' = <<>>
       ELSE pc' = "extract" /\ result' = result
    /\ UNCHANGED <<image, cfg, best_text, max_len, text, amount, candidates,
                   ocr_calls, date, description, transaction_type, text_raw, ocr_texts, cleanVars, sharedVars>>

\* text[:500]
RawTextLimit == 500

\* lines 443-449 with the transaction appended once per recognition pass
TransactionsPerPass(t, a, dt, desc, ty) ==
    IF ~Truthy(a) THEN <<>>
    ELSE LET transaction == [date |-> dt, description |-> desc, amount |-> a,
                             type |-> ty, raw_text |-> Truncate(t, RawTextLimit)]
         IN  <<transaction, transaction>>

\* lines 436-449 with `if amount is None` in the place of `if not amount`
TransactionsUnlessNone(t, a, dt, desc, ty) ==
    IF ~IsNum(a) THEN <<>>
    ELSE << [date |-> dt, description |-> desc, amount |-> a, type |-> ty,
             raw_text |-> Truncate(t, RawTextLimit)] >>

\* lines 436-449: the list returned once the components are extracted
Transactions(t, a, dt, desc, ty) ==
    IF ~Truthy(a) THEN <<>>
    ELSE << [date |-> dt, description |-> desc, amount |-> a, type |-> ty,
             raw_text |-> Truncate(t, RawTextLimit)] >>

\* lines 432-449
Assemble ==
    /\ pc = "extract"
    /\ \E now \in ProcessingDates : \E dt \in ExtractDate(text, now) :
         /\ date' = dt
         /\ description' = ExtractDescription(text)
         /\ transaction_type' = DetectTransactionType(text, description')
         /\ result' = Transactions(text, amount, date', description',
                                   transaction_type')
    /\ pc' = "done"
    /\ UNCHANGED <<image, cfg, best_text, max_len, text, amount, candidates,
                   ocr_calls, text_raw, ocr_texts, cleanVars, sharedVars>>

\* the caller has the list; the engine keeps nothing of the call
Return ==
    /\ pc = "done"
    /\ pc' = "idle"
    /\ image' = "none"
    /\ cfg' = 0
    /\ best_text' = <<>>
    /\ max_len' = 0
    /\ text' = <<>>
    /\ text_raw' = <<>>
    /\ amount' = None
    /\ candidates' = <<>>
    /\ ocr_calls' = 0
    /\ date' = <<>>
    /\ description' = <<>>
    /\ transaction_type' = ""
    /\ result' = <<>>
    /\ UNCHANGED <<ocr_texts, cleanVars, sharedVars>>

Init == CallIdle /\ CleanIdle /\ SharedIdle

Next ==
    \/ Call
    \/ OpenImage
    \/ OcrConfig
    \/ ExtractTextReturn
    \/ PreprocessFails
    \/ OcrConfigFails
    \/ FirstAmount
    \/ RawOcr
    \/ RawOcrFails
    \/ SecondAmount
    \/ CheckText
    \/ Assemble
    \/ Return

Spec == Init /\ [][Next]_vars

(***************************************************************************)
(* _clean_amount on its own: every short string over CleanAlphabet, and    *)
(* amounts as documents write them.                                        *)
(***************************************************************************)
MaxCleanLen == 6

CleanAlphabet == {"0", "5", ".", ",", " "}

WrittenAmounts ==
    { <<"₹","1",",","2","3","4",".","5","6">>, <<"1",",","2","3","4",".","5","6"," ","R","s">>, <<"1",".","2","3","4",".","5","6">>, <<"R","s","."," ","1",",","2","3","4",".","5","6">>,
      <<"2"," ","4","7","0",".","0","0">>, <<"1","2","3","4",".","5","6">>, <<"I","N","R"," ","1","2">>, <<"R","s">> }

CleanInputs ==
    WrittenAmounts \cup
    UNION { [1..n -> CleanAlphabet] : n \in 0..MaxCleanLen }

CleanInit ==
    /\ CallIdle
    /\ SharedIdle
    /\ cl_pc = "in"
    /\ cl_in \in CleanInputs
    /\ cl_out = None
    /\ cl_again = None

\* amount = self._clean_amount(match)
CleanCall ==
    /\ cl_pc = "in"
    /\ cl_out' = CleanAmount(cl_in)
    /\ cl_pc' = "cleaned"
    /\ UNCHANGED <<cl_in, cl_again, callVars, sharedVars>>

\* the cleaned value written out (str) and cleaned again
CleanAgain ==
    /\ cl_pc = "cleaned"
    /\ IsNum(cl_out)
    /\ cl_again' = CleanAmount(FloatStr(cl_out))
    /\ cl_pc' = "recleaned"
    /\ UNCHANGED <<cl_in, cl_out, callVars, sharedVars>>

CleanNext == CleanCall \/ CleanAgain

SpecClean == CleanInit /\ [][CleanNext]_vars

(***************************************************************************)
(* Calls of extract_transactions that share the one engine of app.py.      *)
(* Each call has its own locals; the engine's attributes are all they      *)
(* share. The operators of this module are the methods under the tables    *)
(* __init__ builds; what a method computes from other tables is left open. *)
(***************************************************************************)
\* the texts the recognition adapter returns to these calls
SharedDocs ==
    { <<>>, <<"R","s"," ","5">>, CafeReceipt, TiedIndicators, <<"S","a","l","a","r","y"," ","c","r","e","d","i","t","e","d"," ","4","5",",","0","0","0",".","0","0">> }

\* a step of extract_transactions that assigned to an attribute of the engine
KeywordAppended(e) == [e EXCEPT !.total_keywords = Append(@, <<"a","m","o","u","n","t">>)]

\* lines 394-449 and the methods they call assign to no attribute of self:
\* the engine a step leaves is the engine it found
EngineAfter(e) == e

\* extract_total_amount(t) reading the tables e
AmountsWith(e, t) ==
    IF e = EngineTables THEN {ExtractTotalAmount(t)}
    ELSE {None, Whole(1), ExtractTotalAmount(t)}

\* lines 432-449 reading the tables e, on the date `now`
ResultsWith(e, t, a, now) ==
    IF e = EngineTables
    THEN {Transactions(t, a, dt, ExtractDescription(t),
                       DetectTransactionType(t, ExtractDescription(t))) :
             dt \in ExtractDate(t, now)}
    ELSE {<<>>} \cup
         {Transactions(t, a, dt, desc, DetectTransactionType(t, desc)) :
             dt \in DateStrings(now), desc \in {ExtractDescription(t), <<"T","r","a","n","s","a","c","t","i","o","n">>}}

\* whether another call is inside extract_transactions
Overlaps(c) == \E d \in CallIds \ {c} : calls[d].pc \notin {"idle", "done"}

\* a step of call c that leaves it with the locals `after`
CallStep(c, after) ==
    /\ calls' = [calls EXCEPT
                   ![c] = [after EXCEPT !.overlapped = calls[c].overlapped \/ Overlaps(c)]]
    /\ engine' = EngineAfter(engine)
    /\ UNCHANGED <<callVars, cleanVars>>

\* app.py line 163, one caller among several
SharedCall(c) ==
    /\ calls[c].pc = "idle"
    /\ CallStep(c, [calls[c] EXCEPT !.pc = "ocr"])

\* line 409: text = self.extract_text(image), a stripped text or ""
SharedExtractText(c) ==
    /\ calls[c].pc = "ocr"
    /\ \E t \in SharedDocs :
         CallStep(c, [calls[c] EXCEPT !.first = Strip(t), !.text = Strip(t),
                                      !.pc = "amount1"])

\* lines 411-414
SharedFirstAmount(c) ==
    /\ calls[c].pc = "amount1"
    /\ \E a \in AmountsWith(engine, calls[c].text) :
         CallStep(c, [calls[c] EXCEPT !.amount = a, !.pc = AfterAmount(a)])

\* line 418
SharedRawOcr(c) ==
    /\ calls[c].pc = "raw"
    /\ \E t \in SharedDocs :
         CallStep(c, [calls[c] EXCEPT !.raw = t, !.pc = "amount2"])

\* line 418 raises, lines 421-422
SharedRawOcrFails(c) ==
    /\ calls[c].pc = "raw"
    /\ CallStep(c, [calls[c] EXCEPT !.raw_failed = TRUE, !.pc = AfterRawFailure])

\* lines 419-420
SharedSecondAmount(c) ==
    /\ calls[c].pc = "amount2"
    /\ \E a \in AmountsWith(engine, TextAfterRaw(calls[c].text, calls[c].raw)) :
         CallStep(c, [calls[c] EXCEPT !.text = TextAfterRaw(calls[c].text, calls[c].raw),
                                      !.amount = a, !.pc = "check"])

\* lines 424-426
SharedCheckText(c) ==
    /\ calls[c].pc = "check"
    /\ CallStep(c, [calls[c] EXCEPT
                      !.pc = IF TooShort(calls[c].text) THEN "done" ELSE "extract"])

\* lines 432-449
SharedAssemble(c) ==
    /\ calls[c].pc = "extract"
    /\ \E now \in ProcessingDates :
         \E r \in ResultsWith(engine, calls[c].text, calls[c].amount, now) :
            CallStep(c, [calls[c] EXCEPT !.result = r, !.pc = "done"])

\* the caller takes the list; the locals are gone
SharedReturn(c) ==
    /\ calls[c].pc = "done"
    /\ calls' = [calls EXCEPT ![c] = IdleCall]
    /\ UNCHANGED <<engine, callVars, cleanVars>>

SharedNext ==
    \E c \in CallIds :
        \/ SharedCall(c)
        \/ SharedExtractText(c)
        \/ SharedFirstAmount(c)
        \/ SharedRawOcr(c)
        \/ SharedRawOcrFails(c)
        \/ SharedSecondAmount(c)
        \/ SharedCheckText(c)
        \/ SharedAssemble(c)
        \/ SharedReturn(c)

SpecShared == Init /\ [][SharedNext]_vars

(***************************************************************************)
(* extract_text on its own, the three recognition results kept in          *)
(* ocr_texts until the caller has the text.                                *)
(***************************************************************************)
\* what the recognition adapter returns to these calls: nothing, whitespace,
\* texts of equal length, texts that differ in inner whitespace only
TextOutputs ==
    { <<>>, <<" ","\n">>, <<"T","o","t","a","l"," ","7","5","0","0">>, <<" ","T","o","t","a","l"," ","7","5","0","0","\n">>, <<"P","a","i","d"," ","R","s"," ","3","0","0">>,
      <<"T","o","t","a","l"," "," ","7","5","0","0">>, <<"R","s"," ","5","0">> }

TextOcrConfig == OcrConfigOn(TextOutputs, TRUE)

\* line 409: the caller has the text; the next call starts afresh
TextTaken ==
    /\ pc = "amount1"
    /\ pc' = "idle"
    /\ image' = "none"
    /\ text' = <<>>
    /\ ocr_calls' = 0
    /\ ocr_texts' = <<>>
    /\ UNCHANGED <<cfg, best_text, max_len, text_raw, amount, candidates, date,
                   description, transaction_type, result, cleanVars, sharedVars>>

TextNext ==
    \/ Call
    \/ OpenImage
    \/ TextOcrConfig
    \/ ExtractTextReturn
    \/ PreprocessFails
    \/ OcrConfigFails
    \/ TextTaken
    \/ Return

SpecText == Init /\ [][TextNext]_vars

(***************************************************************************)
(* Properties                                                              *)
(***************************************************************************)
\* the positions a call of extract_transactions goes through
PcValues ==
    {"idle", "open", "ocr", "amount1", "raw", "amount2", "check", "extract", "done"}

\* `text` is the text extract_total_amount last read, and `amount` its result
AmountIsOfText == pc \in {"raw", "check", "extract", "done"} /\ text # <<>>

\* the elements of a sequence
Range(f) == {f[i] : i \in DOMAIN f}

\* the indices of the candidates of priority p
WithPriority(p) == {i \in 1..Len(candidates) : candidates[i].priority = p}

MaxPriority(cs) ==
    CHOOSE p \in {cs[i].priority : i \in 1..Len(cs)} :
        \A i \in 1..Len(cs) : cs[i].priority <= p

\* the first candidate of the highest priority
FirstOfMaxPriority(cs) ==
    cs[CHOOSE i \in 1..Len(cs) :
           /\ cs[i].priority = MaxPriority(cs)
           /\ \A j \in 1..(i - 1) : cs[j].priority < MaxPriority(cs)]

\* C1: with the cafe receipt as the text of record, the call returns exactly
\* one transaction: date 2024-03-12, description ABC CAFE, amount 495.00,
\* type expense.
C1_CafeReceiptTransaction ==
    (pc = "done" /\ text = CafeReceipt) =>
        /\ Len(result) = 1
        /\ result[1].date = <<"2","0","2","4","-","0","3","-","1","2">>
        /\ result[1].description = <<"A","B","C"," ","C","A","F","E">>
        /\ result[1].amount = Hundredths(49500)
        /\ result[1].type = "expense"

\* C2: whatever the image and whatever the recognition returns, the list
\* extract_transactions returns holds no more than one transaction.
C2_AtMostOneTransaction == Len(result) <= 1

C2_OneTransactionReturned == pc = "done" /\ Len(result) = 1 /\ ocr_calls = 3

\* C3: every returned transaction has an amount above 0 and the type income
\* or expense, and a call whose resolved amount is 0 returns no transaction.
C3_PositiveAmountAndType ==
    /\ \A i \in 1..Len(result) :
         /\ IsNum(result[i].amount)
         /\ LessThan(Whole(0), result[i].amount)
         /\ result[i].type \in {"income", "expense"}
    /\ (pc = "done" /\ amount = Whole(0)) => result = <<>>

C3_ZeroAmountDropped ==
    /\ pc = "done"
    /\ amount = Whole(0)
    /\ date # <<>>
    /\ result = <<>>

\* C4: the amount extract_total_amount returns is that of the first candidate,
\* in the order of discovery, among those of the highest priority, and None
\* when there is no candidate.
C4_FirstOfHighestPriority ==
    IF candidates = <<>> THEN amount = None
    ELSE amount = FirstOfMaxPriority(candidates).amount

C4_TieBrokenByOrder ==
    /\ pc = "check"
    /\ candidates # <<>>
    /\ \E i, j \in WithPriority(MaxPriority(candidates)) :
         /\ i < j
         /\ candidates[i].amount # candidates[j].amount
         /\ amount = candidates[i].amount

\* C5: candidates of priority 80 exist only when the keyword strategy found
\* none, the candidate of priority 50 only when the keyword and the bank
\* strategy found none, and the candidates all come from one strategy.
C5_StrategyCascade ==
    /\ (AmountIsOfText /\ WithPriority(80) # {}) =>
           KeywordCandidates(SplitOn(text, "\n")) = <<>>
    /\ (AmountIsOfText /\ WithPriority(50) # {}) =>
           /\ KeywordCandidates(SplitOn(text, "\n")) = <<>>
           /\ BankCandidates(text) = <<>>
    /\ \/ \A i \in 1..Len(candidates) : candidates[i].priority \in {200, 100, 90}
       \/ \A i \in 1..Len(candidates) : candidates[i].priority = 80
       \/ \A i \in 1..Len(candidates) : candidates[i].priority = 50

C5_BankStrategyRan ==
    /\ pc = "check"
    /\ WithPriority(80) # {}
    /\ Contains(Lower(text), <<"p","a","i","d">>)

\* C6 as stated: a candidate of priority 200 beats every candidate of any
\* other line: the amount selected is its amount.
C6_BeatsEveryOtherLine ==
    \A i \in WithPriority(200) :
        (\E j \in 1..Len(candidates) :
             candidates[j].line_index # candidates[i].line_index)
        => amount = candidates[i].amount

\* C6: a document with the lines "Subtotal 900" and "Grand Total 1200", in
\* either order, resolves to 1200; a candidate found on a keyword line that
\* contains "grand total" or "net amount" has priority 200, no candidate has
\* more, and when there is a candidate of priority 200 the first of them in
\* the order of discovery gives the amount, whatever lower candidates there are.
C6_GrandTotalBeatsLower ==
    /\ (AmountIsOfText /\ text \in {<<"S","u","b","t","o","t","a","l"," ","9","0","0","\n","G","r","a","n","d"," ","T","o","t","a","l"," ","1","2","0","0">>,
                                    <<"G","r","a","n","d"," ","T","o","t","a","l"," ","1","2","0","0","\n","S","u","b","t","o","t","a","l"," ","9","0","0">>})
           => amount = Whole(1200)
    /\ \A i \in 1..Len(candidates) :
         /\ candidates[i].priority <= 200
         /\ candidates[i].priority = 100 =>
                /\ ~Contains(Lower(candidates[i].line), <<"g","r","a","n","d"," ","t","o","t","a","l">>)
                /\ ~Contains(Lower(candidates[i].line), <<"n","e","t"," ","a","m","o","u","n","t">>)
    /\ WithPriority(200) # {} =>
           amount = candidates[CHOOSE i \in WithPriority(200) :
                                   \A j \in WithPriority(200) : i <= j].amount

C6_GrandTotalAfterTotal ==
    /\ pc = "check"
    /\ text = <<"T","o","t","a","l"," ","7","5","0","0","\n","G","r","a","n","d"," ","T","o","t","a","l"," ","1","2","0","0">>
    /\ WithPriority(100) # {}
    /\ amount = Whole(1200)

\* C7: with the lines "Date 15/03/2024" and "Total 2024" the amount selected
\* is not 2024, and with "Total 2024.00" as the second line it is 2024.
C7_YearNotSelected ==
    /\ (AmountIsOfText /\ text = YearTotalBare) => amount # Whole(2024)
    /\ (AmountIsOfText /\ text = YearTotalDecimal) => amount = Whole(2024)

\* v is written by str() in positional notation: 0, or a value with at most
\* three zeros between the point and its first digit (v >= 0.0001) and at
\* most 16 digits before the point (v < 1e16)
WrittenPositionally(v) ==
    \/ v.num = 0
    \/ /\ v.scale - Len(DigitsOf(v.num)) <= 3
       /\ Len(DigitsOf(v.num)) - v.scale <= 16

\* the three spellings of 1234.56 are cleaned to 1234.56
CleansExamples ==
    (cl_pc # "in" /\ cl_in \in {<<"₹","1",",","2","3","4",".","5","6">>, <<"1",",","2","3","4",".","5","6"," ","R","s">>, <<"1",".","2","3","4",".","5","6">>})
        => cl_out = Hundredths(123456)

\* C8 as stated: the three spellings are cleaned to 1234.56, and cleaning the
\* textual form of a cleaned value returns the same value.
C8_CleanIdempotent ==
    /\ CleansExamples
    /\ cl_pc = "recleaned" => cl_again = cl_out

\* C8: the three spellings are cleaned to 1234.56, and cleaning the textual
\* form of a cleaned value returns the same value when that form is
\* positional, that is for 0 and for values from 0.0001 up to 16 digits
\* before the point.
C8_CleanIdempotentPositional ==
    /\ CleansExamples
    /\ (cl_pc = "recleaned" /\ WrittenPositionally(cl_out)) => cl_again = cl_out

C8_DoubleDotRecleaned ==
    /\ cl_pc = "recleaned"
    /\ cl_in = <<"1",".","2","3","4",".","5","6">>
    /\ cl_again = Hundredths(123456)

\* C9: a call never ends in an exception, not when the raw recognition call
\* fails and not in cleaning a match of the text, and a call that ends with
\* no amount from either pass returns the empty list.
C9_NoAmountReturnsEmpty ==
    /\ pc \in PcValues
    /\ \A i \in 1..Len(candidates) : IsNum(candidates[i].amount)
    /\ AmountIsOfText =>
           \A m \in Range(AmountMatches(text)) \cup
                    Range(BankFindAllFrom(credit_words, text, 1)) \cup
                    Range(BankFindAllFrom(debit_words, text, 1)) :
               CleanAmount(m) # Raised
    /\ (pc = "done" /\ ~Truthy(amount)) => result = <<>>

C9_BothPassesWithoutAmount ==
    /\ pc = "done"
    /\ ocr_calls = 4
    /\ amount = None
    /\ date # <<>>
    /\ result = <<>>

\* the number of characters of t that are not whitespace
NonWhitespace(t) == Len(SelectSeq(t, LAMBDA c : ~IsSpace(c)))

\* C10 as stated: a call whose final text has fewer than 5 characters that
\* are not whitespace returns no transaction.
C10_FewNonWhitespace ==
    (pc = "done" /\ NonWhitespace(text) < 5) => result = <<>>

\* C10: a call whose final text, with the whitespace at its two ends
\* stripped, has fewer than 5 characters returns no transaction, even when an
\* amount was resolved from it.
C10_ShortTextNoTransaction ==
    (pc = "done" /\ Len(Strip(text)) < 5) => result = <<>>

C10_AmountOfShortText ==
    /\ pc = "done"
    /\ Truthy(amount)
    /\ text # <<>>
    /\ Len(Strip(text)) < 5
    /\ result = <<>>

\* C11: a call given bytes that do not decode ends in a way the caller can
\* tell from the empty list of a call that found no transaction: it raises,
\* or returns something other than the empty list.
C11_DecodeFailureSignalled ==
    (image = "bad" /\ pc \notin {"open"}) => (pc = "raised" \/ result # <<>>)

\* C12: one call invokes the recognition adapter at most four times, in at
\* most two passes: at most three invocations inside extract_text on the
\* preprocessed image, then exactly one on the raw image, which is made if and
\* only if the first-pass text gave no amount (None or 0.0, what `not amount`
\* accepts); after the raw pass the call never returns to either pass.
C12_AtMostTwoPasses ==
    [][ /\ ocr_calls' <= 4
        /\ (pc = "ocr") => (ocr_calls' <= 3 /\ pc' \in {"ocr", "amount1"})
        /\ (pc = "amount1") => (pc' = "raw" <=> ~Truthy(amount'))
        /\ (pc' = "raw") => (pc = "amount1" /\ ocr_calls' = ocr_calls)
        /\ (pc = "raw") => (ocr_calls' = ocr_calls + 1 /\ pc' \in {"amount2", "check"})
        /\ (pc \in {"amount2", "check", "extract", "done"})
              => (pc' \notin {"ocr", "raw"} /\ ocr_calls' \in {ocr_calls, 0})
      ]_vars

\* C12 witness: a call that made all four invocations, the raw one included
C12_FourInvocations ==
    pc = "check" /\ ocr_calls = 4 /\ text = text_raw

\* C13 as stated: after the raw pass the raw text becomes the text of record
\* if it yields an amount, and the first-pass text stays the text of record if
\* it does not.
C13_RawTextOnlyWithAmount ==
    [][ (pc = "amount2")
          => (IF Truthy(amount') THEN text' = text_raw ELSE text' = text) ]_vars

\* C13: once the raw recognition call has returned, its text is the text of
\* record whether or not an amount is found in it, and it is the text the
\* too-short test reads; the first-pass text stays the text of record only
\* when the raw call itself fails.
C13_RawTextAlwaysReplaces ==
    [][ /\ (pc = "amount2")
            => (text' = text_raw /\ amount' = ExtractTotalAmount(text_raw) /\ pc' = "check")
        /\ (pc = "raw" /\ pc' = "check") => text' = text
        /\ (pc = "check") => (text' = text /\ (pc' = "done" <=> TooShort(text)))
      ]_vars

\* C13 witness: the first pass failed before any recognition (first-pass text
\* empty), the raw pass read a text without an amount, and that text is the
\* text of record at the too-short test
C13_AmountlessRawTextOfRecord ==
    /\ pc = "check"
    /\ ocr_calls = 1
    /\ text # <<>>
    /\ text = text_raw
    /\ ~Truthy(amount)

\* the known merchants, the clean lines among the first five and the type
\* keywords a text holds, by their positions in the code's lists
KnownIn(t) ==
    {i \in 1..Len(known_merchants) : Contains(Lower(t), Lower(known_merchants[i]))}

CleanIn(lines) == {i \in 1..Min(Len(lines), 5) : IsCleanLine(lines[i])}

TypesIn(t) ==
    {i \in 1..Len(transaction_type_keys) : Contains(Lower(t), transaction_type_keys[i])}

\* the description the five stages give in their order, from what each finds
StagedDescription(t, known, merchant, lines, clean, types) ==
    IF known # {} THEN known_merchants[Least(known)]
    ELSE IF merchant # <<>> THEN merchant
    ELSE IF clean # {} THEN Truncate(CollapseSpaces(lines[Least(clean)]), 100)
    ELSE IF types # {} THEN transaction_type_labels[Least(types)]
    ELSE <<"T","r","a","n","s","a","c","t","i","o","n">>

\* C14: the description is what the first successful stage gives, the stages
\* taken in the order known merchant, labelled merchant, first clean line,
\* transaction-type keyword, default; a text holding both "Zomato" and
\* "Paid to XYZ Store" is described as "Zomato", and a text on which no stage
\* succeeds as "Transaction".
C14_FirstSuccessfulStage ==
    (pc = "done" /\ date # <<>>)
      => /\ description = StagedDescription(text, KnownIn(text), AcceptedMerchant(text),
                              StrippedLines(text), CleanIn(StrippedLines(text)), TypesIn(text))
         /\ (text = ZomatoAndLabel) => description = <<"Z","o","m","a","t","o">>
         /\ (text = NoStageText) => description = <<"T","r","a","n","s","a","c","t","i","o","n">>

\* C14 witness: the text with both "Zomato" and "Paid to XYZ Store", on which
\* the labelled-merchant stage would succeed too, described as "Zomato"
C14_ZomatoBeforeLabel ==
    /\ pc = "done"
    /\ text = ZomatoAndLabel
    /\ AcceptedMerchant(text) # <<>>
    /\ description = <<"Z","o","m","a","t","o">>
    /\ result # <<>>

\* C15: the description extract_description returns is never empty, has at
\* most 100 characters, and has no whitespace at either end.
C15_DescriptionTrimmed ==
    (pc = "done" /\ date # <<>>)
      => /\ description # <<>>
         /\ Len(description) <= 100
         /\ Strip(description) = description

\* the indicators of a table that occur in the lower-cased text
IndicatorsIn(t, table) == {w \in Range(table) : Contains(Lower(t), w)}

\* C16: the type is "income" exactly when more income indicators than expense
\* indicators occur in the text, and "expense" otherwise, so with equal counts
\* too (one of each in "Refund paid Rs 700", none at all in "₹500\n₹200");
\* there is no third value.
C16_IncomeOnlyIfStrictlyMore ==
    (pc = "done" /\ date # <<>>)
      => /\ transaction_type \in {"income", "expense"}
         /\ (transaction_type = "income")
              <=> (Cardinality(IndicatorsIn(text, income_keywords))
                     > Cardinality(IndicatorsIn(text, expense_keywords)))
         /\ (text \in {TiedIndicators, NoStageText}) => transaction_type = "expense"

\* C16 witness: a transaction for a text with one indicator of each kind,
\* typed "expense"
C16_TieIsExpense ==
    /\ pc = "done"
    /\ result # <<>>
    /\ text = TiedIndicators
    /\ Cardinality(IndicatorsIn(text, income_keywords)) = 1
    /\ Cardinality(IndicatorsIn(text, expense_keywords)) = 1
    /\ result[1].type = "expense"

\* a string of the form YYYY-MM-DD
IsIsoDate(d) ==
    /\ Len(d) = 10
    /\ \A i \in {1, 2, 3, 4, 6, 7, 9, 10} : IsDigit(d[i])
    /\ d[5] = "-" /\ d[8] = "-"

\* C17: extract_date always returns a string of the form YYYY-MM-DD; when no
\* date pattern matches the text, or the match parses under no format (as
\* "31/02/2024" does not), it is the current processing date.
C17_DateAlwaysIso ==
    (pc = "done" /\ date # <<>>)
      => /\ IsIsoDate(date)
         /\ ((\A k \in 1..4 : ~DateFound(k, text, TRUE)) \/ text = UnparseableDate)
               => \E now \in ProcessingDates : date \in DateStrings(now)

\* the matches extract_total_amount hands to _clean_amount: those of the
\* amount patterns on each line and those of the credit and debit patterns on
\* the whole text
MatchesCleaned(t) ==
    UNION {Range(AmountMatches(l)) : l \in Range(SplitOn(t, "\n"))}
      \cup Range(BankFindAllFrom(credit_words, t, 1))
      \cup Range(BankFindAllFrom(debit_words, t, 1))

\* C19: extract_total_amount returns a number or None and never raises: no
\* match it cleans makes _clean_amount raise, every candidate holds a number
\* (a match that does not parse gives no candidate), and an empty candidate
\* list gives None.
C19_AmountNumberOrNone ==
    /\ amount.kind \in {"num", "none"}
    /\ \A c \in Range(candidates) : c.amount.kind = "num"
    /\ (pc \in {"raw", "check", "extract", "done"} /\ candidates = <<>>) => amount = None
    /\ (pc \in {"raw", "check", "extract", "done"})
          => \A m \in MatchesCleaned(text) : CleanAmount(m).kind \in {"num", "none"}

\* C19 witness: a text with amount-shaped matches for which None is returned
C19_NotFoundDespiteMatches ==
    /\ pc = "check"
    /\ MatchesCleaned(text) # {}
    /\ candidates = <<>>
    /\ amount = None

\* C20: on a total-keyword line whose amount is written with a currency
\* prefix and four or more digits without separators, the amount resolved is
\* the full written value: 1500 for "Total Rs 1500", 2500 for
\* "Amount due ₹2500.00", never the first three digits alone.
C20_FullValueResolved ==
    (pc \in {"raw", "check", "extract", "done"})
      => /\ (text = PrefixedTotal) => amount = Whole(1500)
         /\ (text = PrefixedAmountDue) => amount = Whole(2500)

\* the text of record of a call run alone, from what the adapter returned it
AloneText(first, raw, raw_failed) ==
    IF Truthy(ExtractTotalAmount(first)) \/ raw_failed THEN first ELSE raw

\* the lists a call run alone returns on the text of record t
AloneLists(t, a) ==
    IF Len(Strip(t)) < 5 \/ ~Truthy(a) THEN {<<>>}
    ELSE {<< [date |-> dt, description |-> ExtractDescription(t), amount |-> a,
              type |-> DetectTransactionType(t, <<>>),
              raw_text |-> Truncate(t, RawTextLimit)] >> :
             dt \in UNION {ExtractDate(t, now) : now \in ProcessingDates}}

AloneResults(call) ==
    AloneLists(AloneText(call.first, call.raw, call.raw_failed),
               ExtractTotalAmount(AloneText(call.first, call.raw, call.raw_failed)))

\* C18: the attributes of the engine stay as __init__ set them whatever the
\* calls do, and every call that shares the engine with other calls, however
\* their steps interleave, returns what it returns when run alone on the
\* texts the recognition adapter gave it.
C18_CallsDoNotInterfere ==
    /\ engine = EngineTables
    /\ \A c \in CallIds :
         (calls[c].pc = "done") => calls[c].result \in AloneResults(calls[c])

\* C18 witness: two calls, each with steps taken while the other was under
\* way, have both returned a transaction, for different texts
C18_TwoOverlappingCalls ==
    /\ \A c \in CallIds :
         calls[c].pc = "done" /\ calls[c].overlapped /\ calls[c].result # <<>>
    /\ calls[1].text # calls[2].text

\* C21: no candidate comes from a line that holds an ignore keyword, whatever
\* the strategy, and the numbers of such a line are never the amount of the
\* transaction: "Total\nGST 1,180.00" has no other number and gives none.
C21_IgnoredLinesGiveNoCandidate ==
    /\ \A i \in 1..Len(candidates) :
         candidates[i].line_index >= 0 => ~should_ignore(candidates[i].line)
    /\ (pc = "done" /\ text = TotalThenGst) => result = <<>>

\* a line of the keyword strategy: a total keyword and no ignore keyword
Qualifies(line) ==
    /\ \E k \in Range(total_keywords) : Contains(Lower(line), k)
    /\ ~\E k \in Range(ignore_keywords) : Contains(Lower(line), k)

\* the priority the claim gives the matches of a qualifying line
BoostedOrPlain(line) ==
    IF Contains(Lower(line), <<"g","r","a","n","d"," ","t","o","t","a","l">>) \/ Contains(Lower(line), <<"n","e","t"," ","a","m","o","u","n","t">>)
    THEN 200 ELSE 100

\* candidates holds a candidate for line number i (from 0) at priority p for
\* every amount match of the line
EveryMatchAt(cs, line, i, p) ==
    \A m \in Range(AmountMatches(line)) :
        \E c \in Range(cs) :
            c.line_index = i /\ c.priority = p /\ c.amount = CleanAmount(m) /\ c.line = line

\* what C22 says of the candidates cs of the lines ls
KeywordStrategyOf(cs, ls) ==
    /\ \A i \in 1..Len(ls) :
         Qualifies(ls[i]) =>
            /\ EveryMatchAt(cs, ls[i], i - 1, BoostedOrPlain(ls[i]))
            /\ (i < Len(ls)) => EveryMatchAt(cs, ls[i + 1], i, 90)
    /\ \A c \in Range(cs) :
         \/ c.priority \in {50, 80}
         \/ /\ c.priority = 90
            /\ c.line_index >= 1
            /\ Qualifies(ls[c.line_index])
            /\ c.line = ls[c.line_index + 1]
         \/ /\ c.priority = BoostedOrPlain(c.line)
            /\ Qualifies(c.line)
            /\ c.line = ls[c.line_index + 1]

\* C22: every amount match on a line with a total keyword and no ignore
\* keyword is a candidate at priority 200 if the line holds "grand total" or
\* "net amount" and at 100 otherwise; every amount match on the line right
\* after such a line is a candidate at priority 90, whether or not the keyword
\* line had a match of its own; the keyword strategy gives no other candidate,
\* and the amount returned is never a next-line one while a same-line one exists.
C22_SameLineAboveNextLine ==
    (pc \in {"raw", "check", "extract", "done"})
      => /\ KeywordStrategyOf(candidates, SplitOn(text, "\n"))
         /\ (\E c \in Range(candidates) : c.priority >= 100)
              => \E c \in Range(candidates) : c.priority >= 100 /\ c.amount = amount

\* C22 witness: a boosted same-line candidate and a next-line candidate of
\* another value, the same-line one returned
C22_BothKindsOfCandidate ==
    /\ pc = "check"
    /\ \E c, d \in Range(candidates) :
         /\ c.priority = 200 /\ d.priority = 90
         /\ amount = c.amount /\ amount # d.amount
         /\ \A e \in Range(candidates) : e.priority >= 100 => e.amount # d.amount

\* C23: the largest-number fallback discards a number as a year only when
\* it is a whole integer in [2000, 2100]; "2024.50" on an unlabelled line is
\* kept and is returned with its value 2024.50.
C23_DecimalYearKept ==
    (pc \in {"raw", "check", "extract", "done"} /\ text = DecimalInYearRange)
      => amount = Hundredths(202450)

\* the values of the amount-shaped matches on the lines of t that hold no
\* ignore keyword
UnignoredValues(t) ==
    {CleanAmount(m) :
        m \in UNION {Range(AmountMatches(l)) :
                        l \in {k \in Range(SplitOn(t, "\n")) : ~should_ignore(k)}}}

\* a whole number from 2000 to 2100
WholeYear(v) == v.scale = 0 /\ v.num \in 2000..2100

\* the greatest of a non-empty set of values
Greatest(vs) == CHOOSE v \in vs : \A w \in vs : ~LessThan(v, w)

\* the candidates are those of the fallback run on the values vs: none when
\* vs is empty, else one at priority 50 holding the greatest
FallbackOf(cs, a, vs) ==
    IF vs = {} THEN cs = <<>> /\ a = None
    ELSE /\ Len(cs) = 1
         /\ cs[1].priority = 50
         /\ cs[1].amount = Greatest(vs)
         /\ a = Greatest(vs)

\* the largest-number fallback ran: no other strategy left a candidate
FallbackRan ==
    /\ pc \in {"raw", "check", "extract", "done"}
    /\ \A c \in Range(candidates) : c.priority = 50

\* C24 as stated: the fallback gives the greatest of all values found on
\* lines without an ignore keyword but the whole-number years, values such as
\* 1 or 0.50 taking part, as one candidate at priority 50.
C24_SmallValuesTakePart ==
    FallbackRan
      => FallbackOf(candidates, amount,
                    {v \in UnignoredValues(text) : ~WholeYear(v)})

\* C24: the fallback gives the greatest of the values found on lines without
\* an ignore keyword that are strictly greater than 1 and are not whole-number
\* years, as one candidate at priority 50, and no candidate when no such
\* value is found.
C24_LargestAboveOne ==
    FallbackRan
      => FallbackOf(candidates, amount,
                    {v \in UnignoredValues(text) : LessThan(Whole(1), v) /\ ~WholeYear(v)})

\* C24 witness: the fallback ran on a text with a value not above 1 and
\* returned the greatest of the others
C24_FallbackSkipsSmall ==
    /\ pc = "check"
    /\ Len(candidates) = 1
    /\ candidates[1].priority = 50
    /\ \E v \in UnignoredValues(text) : ~LessThan(Whole(1), v)
    /\ amount = Whole(3)

\* C25: a text whose only date is a valid date in one of the four supported
\* shapes gets that date, written YYYY-MM-DD; a date already written
\* YYYY-MM-DD, as in "2024-03-12\nRs 700", comes back unchanged.
C25_IsoDateUnchanged ==
    (pc = "done" /\ text = IsoDated) => date = <<"2","0","2","4","-","0","3","-","1","2">>

\* the keywords of a table among its first k that occur in s, each counted once
\* however often it occurs
RECURSIVE PresentUpTo(_, _, _)
PresentUpTo(s, table, k) ==
    IF k = 0 THEN 0
    ELSE PresentUpTo(s, table, k - 1)
           + (IF Occurrences(s, table[k]) >= 1 THEN 1 ELSE 0)

\* C26 as stated: the counts compared are counts of occurrences, a keyword that
\* occurs k times adding k, so the type is "income" exactly when the income
\* keywords occur more often than the expense keywords (three "salary" outweigh
\* one "bill" and one "invoice").
C26_EveryOccurrenceCounts ==
    (pc = "done" /\ date # <<>>)
      => /\ (transaction_type = "income")
              <=> (OccurrencesUpTo(Lower(text), income_keywords, Len(income_keywords))
                     > OccurrencesUpTo(Lower(text), expense_keywords, Len(expense_keywords)))
         /\ text = RepeatedSalary => transaction_type = "income"

\* C26: the counts compared are counts of keywords, a keyword that occurs in the
\* text adding one however many times it occurs, so three occurrences of
\* "salary" do not outweigh one "bill" plus one "invoice".
C26_KeywordCountsOnce ==
    (pc = "done" /\ date # <<>>)
      => /\ (transaction_type = "income")
              <=> (PresentUpTo(Lower(text), income_keywords, Len(income_keywords))
                     > PresentUpTo(Lower(text), expense_keywords, Len(expense_keywords)))
         /\ text = RepeatedSalary => transaction_type = "expense"

\* C26 witness: a transaction typed "expense" for a text where "salary" occurs
\* three times and "bill" and "invoice" once each
C26_RepeatedKeyword ==
    /\ pc = "done"
    /\ result # <<>>
    /\ text = RepeatedSalary
    /\ Occurrences(Lower(text), <<"s","a","l","a","r","y">>) = 3
    /\ Occurrences(Lower(text), <<"b","i","l","l">>) = 1
    /\ Occurrences(Lower(text), <<"i","n","v","o","i","c","e">>) = 1
    /\ OccurrencesUpTo(Lower(text), income_keywords, Len(income_keywords)) = 3
    /\ OccurrencesUpTo(Lower(text), expense_keywords, Len(expense_keywords)) = 2
    /\ result[1].type = "expense"

\* C27: a description given by the labelled-merchant stage has a length
\* strictly between 3 and 50 and lies, whitespace-normalised, within one single
\* line of the text, never reaching into the following line; a first line
\* "ABC CAFE" followed by "Date: ..." is described as "ABC CAFE".
C27_MerchantWithinOneLine ==
    (pc = "done" /\ date # <<>> /\ KnownIn(text) = {} /\ AcceptedMerchant(text) # <<>>)
      => /\ description = AcceptedMerchant(text)
         /\ Len(description) > 3 /\ Len(description) < 50
         /\ \E l \in Range(SplitOn(text, "\n")) : Contains(CollapseSpaces(l), description)
         /\ (text = CafeReceipt) => description = <<"A","B","C"," ","C","A","F","E">>

\* C29: every returned transaction is computed from the one text of record:
\* its amount is what extract_total_amount gives for that text, its date,
\* description and type are computed from that text, and its raw_text is the
\* first min(500, length) characters of it; when the raw pass returned a text,
\* that text is the text of record, so no field comes from the first-pass text.
C29_FieldsOfOneText ==
    (pc = "done" /\ result # <<>>)
      => /\ Len(result) = 1
         /\ result[1].amount = ExtractTotalAmount(text)
         /\ \E now \in ProcessingDates : result[1].date \in ExtractDate(text, now)
         /\ result[1].description = ExtractDescription(text)
         /\ (result[1].type = "income")
              <=> (Cardinality(IndicatorsIn(text, income_keywords))
                     > Cardinality(IndicatorsIn(text, expense_keywords)))
         /\ Len(result[1].raw_text) = Min(RawTextLimit, Len(text))
         /\ result[1].raw_text = SubSeq(text, 1, Len(result[1].raw_text))
         /\ (text_raw # <<>>) => text = text_raw

\* C29 witness: a transaction returned after the raw pass, for a raw text whose
\* type comes from the text ("refund", "credited") and not from its description
C29_TransactionOfRawText ==
    /\ pc = "done"
    /\ result # <<>>
    /\ ocr_calls = 4
    /\ text = AmazonRefund
    /\ text_raw = text
    /\ result[1].description = <<"A","m","a","z","o","n">>
    /\ result[1].type = "income"
    /\ result[1].amount = Whole(500)
    /\ result[1].raw_text = text

\* C30: every amount candidate, whichever strategy made it, has a value above
\* 0, so the resolved amount is never 0 and a zero never displaces a positive
\* candidate: "Grand Total 0000\nTotal Rs 500" resolves to 500.
C30_CandidatesPositive ==
    /\ \A i \in 1..Len(candidates) : LessThan(Whole(0), candidates[i].amount)
    /\ amount # Whole(0)
    /\ (pc \in {"raw", "check", "extract", "done"} /\ text = ZeroGrandTotal)
         => amount = Whole(500)

\* the least position of a sequence of texts whose measure is the greatest
EarliestGreatest(texts, Measure(_)) ==
    Least({i \in 1..Len(texts) :
             \A j \in 1..Len(texts) : Measure(texts[j]) <= Measure(texts[i])})

\* the three recognition calls of extract_text have returned and the caller
\* holds the text
ThreeResults == pc = "amount1" /\ Len(ocr_texts) = 3

\* C28 as stated: of the three recognition results the one with the most
\* characters that are not whitespace is returned (trimmed), the earliest on
\* ties, and the empty string when all three are empty.
C28_MostNonWhitespace ==
    ThreeResults
      => text = Strip(ocr_texts[EarliestGreatest(ocr_texts, NonWhitespace)])

\* the length extract_text compares: that of the text without its leading and
\* trailing whitespace
StrippedLength(t) == Len(Strip(t))

\* C28: of the three recognition results, each trimmed of leading and trailing
\* whitespace, the longest is returned, whitespace inside the text counting
\* towards its length; on ties the earliest configuration wins, and the empty
\* string is returned when all three are empty once trimmed.
C28_LongestTrimmed ==
    ThreeResults
      => /\ text = Strip(ocr_texts[EarliestGreatest(ocr_texts, StrippedLength)])
         /\ (\A i \in 1..3 : Strip(ocr_texts[i]) = <<>>) <=> text = <<>>

\* C28 witness: three results of which the second and the third are the
\* longest once trimmed and differ, the second being returned, while the first
\* has as many non-whitespace characters as the second
C28_TieKeepsEarliest ==
    /\ ThreeResults
    /\ ocr_texts = << <<"T","o","t","a","l"," ","7","5","0","0">>, <<"P","a","i","d"," ","R","s"," ","3","0","0">>, <<"T","o","t","a","l"," "," ","7","5","0","0">> >>
    /\ NonWhitespace(ocr_texts[1]) = NonWhitespace(ocr_texts[2])
    /\ text = <<"P","a","i","d"," ","R","s"," ","3","0","0">>

====
